---- MODULE Spec2Model ----
(***************************************************************************)
(* The write-ahead-log storage engine DAL::WALJsonStorage<T>               *)
(* (src/DAL/WALJsonStorage.h) instantiated with T = BLL::Student           *)
(* (src/BLL/Models.h), the only record type of the repository that has     *)
(* GetId().                                                                *)
(*                                                                         *)
(* The state is one engine instance (its private fields) and the two files *)
(* it owns: the snapshot (dataFilePath) and the journal (walFilePath).     *)
(* Every public method is an operator from a state record to a state       *)
(* record, written statement by statement after the C++; an action applies *)
(* one method to the current state.  The timestamp of a journal entry is   *)
(* written and read back but never used, so its value is not part of a     *)
(* line.                                                                   *)
(***************************************************************************)
EXTENDS Integers, Sequences, FiniteSets, TLC

VARIABLES
    memoryIndex,              \* std::map<int, T>: function from the live ids to records
    deletedIds,               \* std::set<int>
    operationsSinceCompact,   \* int
    compactThreshold,         \* int, set by the constructor
    indexLoaded,              \* bool
    dataFile,                 \* the snapshot file: [kind, elems]
    walFile,                  \* the journal file: [exists, lines]
    service,                  \* the service object on top of the storage, if any
    last                      \* the last call: its name, arguments and outcome

vars == <<memoryIndex, deletedIds, operationsSinceCompact, compactThreshold,
          indexLoaded, dataFile, walFile, service, last>>

(***************************************************************************)
(* Bounds of the model.                                                    *)
(***************************************************************************)
MaxWal == 2          \* a call is explored while the journal it leaves has at most MaxWal lines
MaxThreshold == 2    \* compactThreshold ranges over 1..MaxThreshold
MaxReplays == 2      \* SpecReplay replays the journal at most MaxReplays times
MaxOffset == 4       \* LoadRange is called with offset in 0..MaxOffset
MaxLimit == 4        \* and limit in -1..MaxLimit
MaxIds == 3          \* LoadByIds is called with at most MaxIds ids
MaxOverdue == 1      \* SpecIO: a write is explored while the counter is at most compactThreshold + MaxOverdue
MaxFaults == 1       \* SpecIO: at most MaxFaults calls meet a file that fails to open

(***************************************************************************)
(* enum class OperationType, as the integers written to the journal.       *)
(***************************************************************************)
INSERT == 0
UPDATE == 1
DELETE == 2

(***************************************************************************)
(* BLL::Grade and BLL::Student.                                            *)
(***************************************************************************)
MkGrade(subj, sc) == [subject |-> subj, score |-> sc]

MkStudent(studentId, first, lastN, group, gr) ==
    [id |-> studentId, firstName |-> first, lastName |-> lastN,
     groupName |-> group, grades |-> gr]

\* Student(): id 0 and empty names; what Operation<T>::data holds for a Delete.
DefaultStudent == MkStudent(0, "", "", "", <<>>)

\* Grade::ValidateScore: true when the constructor does not throw.
ValidateScore(sc) == ~(sc < 0 \/ sc > 100)

\* Student::ValidateName: true when it does not throw.
ValidateName(name) == name # ""

\* AddGrade that always appends.
AddGrade_Append(gr, g) == Append(gr, g)

\* Student::AddGrade on the grade list: the first grade of the same subject
\* gets the new score, otherwise the grade is appended.
AddGrade(gr, g) ==
    IF \E i \in 1..Len(gr) : gr[i].subject = g.subject
    THEN LET i == CHOOSE k \in 1..Len(gr) :
                     /\ gr[k].subject = g.subject
                     /\ \A n \in 1..(k - 1) : gr[n].subject # g.subject
         IN  [gr EXCEPT ![i] = MkGrade(gr[i].subject, g.score)]
    ELSE Append(gr, g)

\* Grade::ToJson and Student::ToJson: the JSON object, key by key.
GradeToJson(g) == [subject |-> g.subject, score |-> g.score]

StudentToJson(s) ==
    [id |-> s.id, firstName |-> s.firstName, lastName |-> s.lastName,
     groupName |-> s.groupName,
     grades |-> [i \in 1..Len(s.grades) |-> GradeToJson(s.grades[i])]]

\* The grades loop of Student::FromJson: Grade::FromJson builds each grade
\* through the validating constructor, AddGrade merges equal subjects.
\* The result is [ok, val]; ok is FALSE when a constructor throws.
RECURSIVE GradesFromJson(_, _)
GradesFromJson(acc, js) ==
    IF js = <<>> THEN [ok |-> TRUE, val |-> acc]
    ELSE IF ~ValidateScore(Head(js).score) THEN [ok |-> FALSE, val |-> acc]
    ELSE GradesFromJson(AddGrade(acc, MkGrade(Head(js).subject, Head(js).score)),
                        Tail(js))

\* Student::FromJson: the four-argument constructor validates both names.
StudentFromJson(j) ==
    IF ~(ValidateName(j.firstName) /\ ValidateName(j.lastName))
    THEN [ok |-> FALSE, val |-> DefaultStudent]
    ELSE LET g == GradesFromJson(<<>>, j.grades)
         IN  IF g.ok
             THEN [ok |-> TRUE,
                   val |-> MkStudent(j.id, j.firstName, j.lastName, j.groupName, g.val)]
             ELSE [ok |-> FALSE, val |-> DefaultStudent]

\* The records the callers pass in: built by Student(id, first, last, group)
\* and AddGrade, so both names are non-empty and every score is in 0..100.
Students ==
    { MkStudent(1, "Ann", "Lee", "G1", <<>>),
      MkStudent(1, "Bob", "Lee", "G1", <<>>),
      MkStudent(2, "Ann", "Ray", "", <<MkGrade("math", 90)>>) }

Ids == {s.id : s \in Students}

(***************************************************************************)
(* std::map<int, T> as a function on the set of its keys.                  *)
(***************************************************************************)
EmptyIndex == [k \in {} |-> DefaultStudent]

\* memoryIndex[k] = v
MapSet(m, k, v) == [x \in (DOMAIN m) \cup {k} |-> IF x = k THEN v ELSE m[x]]

\* memoryIndex.erase(k)
MapErase(m, k) == [x \in (DOMAIN m) \ {k} |-> m[x]]

MinKey(S) == CHOOSE k \in S : \A x \in S : k <= x

\* Iteration that yields the values in descending key order.
RECURSIVE MapValues_Descending(_)
MapValues_Descending(m) ==
    IF DOMAIN m = {} THEN <<>>
    ELSE LET k == CHOOSE k \in DOMAIN m : \A x \in DOMAIN m : k >= x
         IN  <<m[k]>> \o MapValues_Descending(MapErase(m, k))

\* Iteration over the map (for (const auto& pair : memoryIndex)): the values
\* in ascending key order.
RECURSIVE MapValues(_)
MapValues(m) ==
    IF DOMAIN m = {} THEN <<>>
    ELSE LET k == MinKey(DOMAIN m) IN <<m[k]>> \o MapValues(MapErase(m, k))

(***************************************************************************)
(* Operation<T>.                                                           *)
(***************************************************************************)
MkOp(t, i, d) == [type |-> t, id |-> i, data |-> d]

\* Operation::ToJson that writes "data" for every type.
OperationToJson_AlwaysData(op) ==
    [parses |-> TRUE, hasKeys |-> TRUE, type |-> op.type, id |-> op.id,
     data |-> <<StudentToJson(op.data)>>]

\* Operation::ToJson, dumped as one journal line.  data is present unless the
\* type is DELETE; a line written by the engine always parses and always has
\* the keys "type", "id" and "timestamp" (hasKeys).
OperationToJson(op) ==
    [parses |-> TRUE, hasKeys |-> TRUE, type |-> op.type, id |-> op.id,
     data |-> IF op.type # DELETE THEN <<StudentToJson(op.data)>> ELSE <<>>]

\* json::parse(line) followed by Operation::FromJson: [ok, ub, op]; ok is
\* FALSE when either throws.  Without "data" the operation keeps a default T.
\* FromJson takes a const json&, and j["type"], j["id"], j["timestamp"] on a
\* const object that lacks the key is undefined behaviour (an assertion of
\* the JSON library when assertions are compiled in): ub is TRUE then.
OperationFromJson(line) ==
    IF ~line.parses
    THEN [ok |-> FALSE, ub |-> FALSE, op |-> MkOp(line.type, line.id, DefaultStudent)]
    ELSE IF ~line.hasKeys
    THEN [ok |-> FALSE, ub |-> TRUE, op |-> MkOp(line.type, line.id, DefaultStudent)]
    ELSE IF line.type # DELETE /\ line.data # <<>>
    THEN LET d == StudentFromJson(line.data[1])
         IN  [ok |-> d.ok, ub |-> FALSE, op |-> MkOp(line.type, line.id, d.val)]
    ELSE [ok |-> TRUE, ub |-> FALSE, op |-> MkOp(line.type, line.id, DefaultStudent)]

(***************************************************************************)
(* The engine.  A state record st holds the fields of the instance, the    *)
(* two files, and the outcome of the call in progress: err (the exception  *)
(* thrown, "none" if none), halted (the process stopped inside the call)   *)
(* and ret/flag (the value returned).  onUB is what undefined behaviour    *)
(* does in the build that runs the call: "abort" (the assertion fires and  *)
(* the process ends) or "throw" (the read of the missing element ends in   *)
(* an exception).                                                          *)
(***************************************************************************)
NoFault == [wal |-> "ok", data |-> "ok", stop |-> "none"]

\* ApplyOp with a replayed Delete that leaves the record in the index.
ApplyOp_IgnoreDelete(st, op) ==
    IF op.type \in {INSERT, UPDATE}
    THEN [st EXCEPT !.memoryIndex = MapSet(st.memoryIndex, op.id, op.data),
                    !.deletedIds = st.deletedIds \ {op.id}]
    ELSE IF op.type = DELETE
    THEN [st EXCEPT !.deletedIds = st.deletedIds \cup {op.id}]
    ELSE st

\* ApplyOp with a replayed Update that keeps the grades of the stored record
\* and appends the grades of the entry: a history that grows on every replay.
ApplyOp_AppendHistory(st, op) ==
    IF op.type = UPDATE /\ op.id \in DOMAIN st.memoryIndex
    THEN [st EXCEPT !.memoryIndex =
                        MapSet(st.memoryIndex, op.id,
                               [op.data EXCEPT !.grades =
                                    st.memoryIndex[op.id].grades \o op.data.grades]),
                    !.deletedIds = st.deletedIds \ {op.id}]
    ELSE IF op.type \in {INSERT, UPDATE}
    THEN [st EXCEPT !.memoryIndex = MapSet(st.memoryIndex, op.id, op.data),
                    !.deletedIds = st.deletedIds \ {op.id}]
    ELSE IF op.type = DELETE
    THEN [st EXCEPT !.memoryIndex = MapErase(st.memoryIndex, op.id),
                    !.deletedIds = st.deletedIds \cup {op.id}]
    ELSE st

\* The switch of ApplyWAL on one decoded operation.
ApplyOp(st, op) ==
    IF op.type \in {INSERT, UPDATE}
    THEN [st EXCEPT !.memoryIndex = MapSet(st.memoryIndex, op.id, op.data),
                    !.deletedIds = st.deletedIds \ {op.id}]
    ELSE IF op.type = DELETE
    THEN [st EXCEPT !.memoryIndex = MapErase(st.memoryIndex, op.id),
                    !.deletedIds = st.deletedIds \cup {op.id}]
    ELSE st

\* The getline loop of ApplyWAL: a line that throws is skipped; a line on
\* which FromJson aborts ends the process inside the loop.
RECURSIVE ApplyLines(_, _)
ApplyLines(st, lines) ==
    IF lines = <<>> THEN st
    ELSE LET d == OperationFromJson(Head(lines))
         IN  IF d.ub /\ st.onUB = "abort" THEN [st EXCEPT !.halted = TRUE]
             ELSE ApplyLines(IF d.ok THEN ApplyOp(st, d.op) ELSE st, Tail(lines))

ApplyWAL(st) ==
    IF ~st.walFile.exists THEN st ELSE ApplyLines(st, st.walFile.lines)

\* The loop of LoadIndex over the snapshot array: the first element that
\* throws ends the loop (the catch is outside it), the records before it stay.
RECURSIVE LoadElems(_, _)
LoadElems(m, elems) ==
    IF elems = <<>> THEN m
    ELSE LET d == StudentFromJson(Head(elems))
         IN  IF d.ok THEN LoadElems(MapSet(m, d.val.id, d.val), Tail(elems))
             ELSE m

\* LoadIndex that reports a snapshot it cannot parse instead of ignoring it.
LoadIndex_Strict(st) ==
    IF st.indexLoaded THEN st
    ELSE LET fromData ==
                 IF st.dataFile.kind = "array"
                 THEN [st EXCEPT !.memoryIndex =
                                     LoadElems(st.memoryIndex, st.dataFile.elems)]
                 ELSE IF st.dataFile.kind = "absent" THEN st
                 ELSE [st EXCEPT !.err = "FormatError"]
         IN  [ApplyWAL(fromData) EXCEPT !.indexLoaded = TRUE]

\* LoadIndex without the test of indexLoaded: every call reads the snapshot
\* and replays the journal.
LoadIndex_Always(st) ==
    LET fromData ==
            IF st.dataFile.kind = "array"
            THEN [st EXCEPT !.memoryIndex =
                                LoadElems(st.memoryIndex, st.dataFile.elems)]
            ELSE st
    IN  [ApplyWAL(fromData) EXCEPT !.indexLoaded = TRUE]

\* LoadIndex.  The snapshot is read only when it opens, parses and is an
\* array (kind "array"); kind "absent" (it does not open), "unparseable"
\* (operator>> throws) and "object" (parsed, not an array) leave the index
\* as it is.  The index is not cleared first.
LoadIndex(st) ==
    IF st.indexLoaded THEN st
    ELSE LET fromData ==
                 IF st.dataFile.kind = "array"
                 THEN [st EXCEPT !.memoryIndex =
                                     LoadElems(st.memoryIndex, st.dataFile.elems)]
                 ELSE st
         IN  [ApplyWAL(fromData) EXCEPT !.indexLoaded = TRUE]

\* Compact that empties the index once the snapshot is written.
Compact_DropsIndex(st, env) ==
    LET allItems == MapValues(st.memoryIndex)
        written == [st EXCEPT !.dataFile =
                        [kind |-> "array",
                         elems |-> [i \in 1..Len(allItems) |-> StudentToJson(allItems[i])]]]
    IN  IF env.data = "fail" THEN [st EXCEPT !.err = "IOFailure"]
        ELSE IF env.stop = "inSnapshotWrite"
        THEN [st EXCEPT !.dataFile = [kind |-> "unparseable", elems |-> <<>>],
                        !.halted = TRUE]
        ELSE IF env.stop = "afterSnapshot" THEN [written EXCEPT !.halted = TRUE]
        ELSE [written EXCEPT
                  !.memoryIndex = EmptyIndex,
                  !.walFile = IF env.wal = "ok"
                              THEN [exists |-> TRUE, lines |-> <<>>]
                              ELSE st.walFile,
                  !.operationsSinceCompact = 0,
                  !.deletedIds = {}]

\* Compact without deletedIds.clear().
Compact_KeepsDeleted(st, env) ==
    LET allItems == MapValues(st.memoryIndex)
        written == [st EXCEPT !.dataFile =
                        [kind |-> "array",
                         elems |-> [i \in 1..Len(allItems) |-> StudentToJson(allItems[i])]]]
    IN  IF env.data = "fail" THEN [st EXCEPT !.err = "IOFailure"]
        ELSE IF env.stop = "inSnapshotWrite"
        THEN [st EXCEPT !.dataFile = [kind |-> "unparseable", elems |-> <<>>],
                        !.halted = TRUE]
        ELSE IF env.stop = "afterSnapshot" THEN [written EXCEPT !.halted = TRUE]
        ELSE [written EXCEPT
                  !.walFile = IF env.wal = "ok"
                              THEN [exists |-> TRUE, lines |-> <<>>]
                              ELSE st.walFile,
                  !.operationsSinceCompact = 0]

\* Compact that truncates the journal before it opens the snapshot.
Compact_TruncatesFirst(st, env) ==
    LET allItems == MapValues(st.memoryIndex)
        truncated == [st EXCEPT !.walFile = IF env.wal = "ok"
                                            THEN [exists |-> TRUE, lines |-> <<>>]
                                            ELSE st.walFile]
        written == [truncated EXCEPT !.dataFile =
                        [kind |-> "array",
                         elems |-> [i \in 1..Len(allItems) |-> StudentToJson(allItems[i])]]]
    IN  IF env.data = "fail" THEN [truncated EXCEPT !.err = "IOFailure"]
        ELSE IF env.stop = "inSnapshotWrite"
        THEN [truncated EXCEPT !.dataFile = [kind |-> "unparseable", elems |-> <<>>],
                               !.halted = TRUE]
        ELSE IF env.stop = "afterSnapshot" THEN [written EXCEPT !.halted = TRUE]
        ELSE [written EXCEPT !.operationsSinceCompact = 0, !.deletedIds = {}]

\* Compact.  env.data = "fail": the snapshot cannot be opened, the call
\* throws.  env.stop = "inSnapshotWrite": the process stops after
\* std::ofstream dataFile(dataFilePath) has truncated the snapshot and before
\* the text is written out in full; the file is empty or holds a prefix of
\* the JSON text, and either way it does not parse.  env.stop =
\* "afterSnapshot": the process stops between dataFile.close() and the
\* truncation of the journal.  The truncation opens the journal without
\* testing the stream.
Compact(st, env) ==
    LET allItems == MapValues(st.memoryIndex)
        written == [st EXCEPT !.dataFile =
                        [kind |-> "array",
                         elems |-> [i \in 1..Len(allItems) |-> StudentToJson(allItems[i])]]]
    IN  IF env.data = "fail" THEN [st EXCEPT !.err = "IOFailure"]
        ELSE IF env.stop = "inSnapshotWrite"
        THEN [st EXCEPT !.dataFile = [kind |-> "unparseable", elems |-> <<>>],
                        !.halted = TRUE]
        ELSE IF env.stop = "afterSnapshot" THEN [written EXCEPT !.halted = TRUE]
        ELSE [written EXCEPT
                  !.walFile = IF env.wal = "ok"
                              THEN [exists |-> TRUE, lines |-> <<>>]
                              ELSE st.walFile,
                  !.operationsSinceCompact = 0,
                  !.deletedIds = {}]

\* AppendToWAL that counts the write and never writes the line.
AppendToWAL_NoWrite(st, op, env) ==
    LET appended ==
            [st EXCEPT !.operationsSinceCompact = st.operationsSinceCompact + 1]
    IN  IF appended.operationsSinceCompact >= appended.compactThreshold
        THEN Compact(appended, env)
        ELSE appended

\* AppendToWAL that compacts only when the counter exceeds the threshold.
AppendToWAL_StrictGreater(st, op, env) ==
    LET appended ==
            [st EXCEPT
                 !.walFile = IF env.wal = "ok"
                             THEN [exists |-> TRUE,
                                   lines |-> Append(st.walFile.lines, OperationToJson(op))]
                             ELSE st.walFile,
                 !.operationsSinceCompact = st.operationsSinceCompact + 1]
    IN  IF appended.operationsSinceCompact > appended.compactThreshold
        THEN Compact(appended, env)
        ELSE appended

\* AppendToWAL that writes the line in front of the lines of the journal.
AppendToWAL_Prepend(st, op, env) ==
    LET appended ==
            [st EXCEPT
                 !.walFile = IF env.wal = "ok"
                             THEN [exists |-> TRUE,
                                   lines |-> <<OperationToJson(op)>> \o st.walFile.lines]
                             ELSE st.walFile,
                 !.operationsSinceCompact = st.operationsSinceCompact + 1]
    IN  IF appended.operationsSinceCompact >= appended.compactThreshold
        THEN Compact(appended, env)
        ELSE appended

\* AppendToWAL: the line is written only if the journal opens; the counter is
\* incremented either way.
AppendToWAL(st, op, env) ==
    LET appended ==
            [st EXCEPT
                 !.walFile = IF env.wal = "ok"
                             THEN [exists |-> TRUE,
                                   lines |-> Append(st.walFile.lines, OperationToJson(op))]
                             ELSE st.walFile,
                 !.operationsSinceCompact = st.operationsSinceCompact + 1]
    IN  IF appended.operationsSinceCompact >= appended.compactThreshold
        THEN Compact(appended, env)
        ELSE appended

\* Insert that keeps the stored record when the id is already in the index
\* (std::map::insert instead of operator[]).
Insert_NoOverwrite(st, item, env) ==
    LET loaded == LoadIndex(st)
        op == MkOp(INSERT, item.id, item)
    IN  AppendToWAL(IF item.id \in DOMAIN loaded.memoryIndex THEN loaded
                    ELSE [loaded EXCEPT
                              !.memoryIndex = MapSet(loaded.memoryIndex, item.id, item)],
                    op, env)

\* Insert that opens the journal first and throws, with the index as it
\* was, when the journal does not open.
Insert_JournalFirst(st, item, env) ==
    LET loaded == LoadIndex(st)
        op == MkOp(INSERT, item.id, item)
    IN  IF env.wal = "fail" THEN [loaded EXCEPT !.err = "IOFailure"]
        ELSE AppendToWAL([loaded EXCEPT
                              !.memoryIndex = MapSet(loaded.memoryIndex, item.id, item)],
                         op, env)

Insert(st, item, env) ==
    LET loaded == LoadIndex(st)
        op == MkOp(INSERT, item.id, item)
    IN  AppendToWAL([loaded EXCEPT !.memoryIndex = MapSet(loaded.memoryIndex, item.id, item)],
                    op, env)

\* Update that stores the record and appends no journal entry.
Update_NoJournal(st, item, env) ==
    LET loaded == LoadIndex(st)
    IN  IF item.id \notin DOMAIN loaded.memoryIndex
        THEN [loaded EXCEPT !.err = "NotFound"]
        ELSE [loaded EXCEPT !.memoryIndex = MapSet(loaded.memoryIndex, item.id, item)]

\* Update without the test for the id: an upsert like Insert.
Update_NoCheck(st, item, env) ==
    LET loaded == LoadIndex(st)
        op == MkOp(UPDATE, item.id, item)
    IN  AppendToWAL([loaded EXCEPT
                         !.memoryIndex = MapSet(loaded.memoryIndex, item.id, item)],
                    op, env)

Update(st, item, env) ==
    LET loaded == LoadIndex(st)
        op == MkOp(UPDATE, item.id, item)
    IN  IF item.id \notin DOMAIN loaded.memoryIndex
        THEN [loaded EXCEPT !.err = "NotFound"]
        ELSE AppendToWAL([loaded EXCEPT
                              !.memoryIndex = MapSet(loaded.memoryIndex, item.id, item)],
                         op, env)

\* Delete that notes the id in the deleted-id set before it tests the index.
Delete_TombstoneFirst(st, id, env) ==
    LET loaded == LoadIndex(st)
        noted == [loaded EXCEPT !.deletedIds = loaded.deletedIds \cup {id}]
        op == MkOp(DELETE, id, DefaultStudent)
    IN  IF id \notin DOMAIN loaded.memoryIndex
        THEN [noted EXCEPT !.err = "NotFound"]
        ELSE AppendToWAL([noted EXCEPT
                              !.memoryIndex = MapErase(loaded.memoryIndex, id)],
                         op, env)

Delete(st, id, env) ==
    LET loaded == LoadIndex(st)
        op == MkOp(DELETE, id, DefaultStudent)
    IN  IF id \notin DOMAIN loaded.memoryIndex
        THEN [loaded EXCEPT !.err = "NotFound"]
        ELSE AppendToWAL([loaded EXCEPT
                              !.memoryIndex = MapErase(loaded.memoryIndex, id),
                              !.deletedIds = loaded.deletedIds \cup {id}],
                         op, env)

\* LoadById that notes an id it does not find in the deleted-id set.
LoadById_MarksMissing(st, id) ==
    LET loaded == LoadIndex(st)
    IN  IF id \notin DOMAIN loaded.memoryIndex
        THEN [loaded EXCEPT !.err = "NotFound", !.deletedIds = @ \cup {id}]
        ELSE [loaded EXCEPT !.ret = <<loaded.memoryIndex[id]>>]

LoadById(st, id) ==
    LET loaded == LoadIndex(st)
    IN  IF id \notin DOMAIN loaded.memoryIndex
        THEN [loaded EXCEPT !.err = "NotFound"]
        ELSE [loaded EXCEPT !.ret = <<loaded.memoryIndex[id]>>]

LoadAll(st) ==
    LET loaded == LoadIndex(st)
    IN  [loaded EXCEPT !.ret = MapValues(loaded.memoryIndex)]

\* The loop of Save: memoryIndex[item.GetId()] = item for each item in turn.
RECURSIVE PutAll(_, _)
PutAll(m, items) ==
    IF items = <<>> THEN m
    ELSE PutAll(MapSet(m, Head(items).id, Head(items)), Tail(items))

\* Save without memoryIndex.clear().
Save_NoClear(st, items, env) ==
    LET compacted == Compact([st EXCEPT !.memoryIndex = PutAll(st.memoryIndex, items)], env)
    IN  IF compacted.err # "none" \/ compacted.halted THEN compacted
        ELSE [compacted EXCEPT !.indexLoaded = TRUE]

\* Save does not call LoadIndex and does not touch deletedIds; indexLoaded is
\* set only when Compact returns.
Save(st, items, env) ==
    LET compacted == Compact([st EXCEPT !.memoryIndex = PutAll(EmptyIndex, items)], env)
    IN  IF compacted.err # "none" \/ compacted.halted THEN compacted
        ELSE [compacted EXCEPT !.indexLoaded = TRUE]

\* Clear that empties the index and the deleted-id set and writes no file.
Clear_MemoryOnly(st, env) ==
    [st EXCEPT !.memoryIndex = EmptyIndex, !.deletedIds = {}]

\* Clear does not call LoadIndex and leaves indexLoaded as it is.
Clear(st, env) ==
    Compact([st EXCEPT !.memoryIndex = EmptyIndex, !.deletedIds = {}], env)

\* ForceCompact does not call LoadIndex.
ForceCompact(st, env) == Compact(st, env)

\* Exists answered from the deleted-id set instead of the index.
Exists_ByTombstone(st, id) ==
    LET loaded == LoadIndex(st)
    IN  [loaded EXCEPT !.flag = (id \notin loaded.deletedIds)]

Exists(st, id) ==
    LET loaded == LoadIndex(st)
    IN  [loaded EXCEPT !.flag = (id \in DOMAIN loaded.memoryIndex)]

\* GetCount and GetOperationsSinceCompact: const, no LoadIndex; ret holds
\* the number returned.
GetCount(st) == [st EXCEPT !.ret = <<Cardinality(DOMAIN st.memoryIndex)>>]

GetOperationsSinceCompact(st) == [st EXCEPT !.ret = <<st.operationsSinceCompact>>]

\* The while loop of LoadRange from position pos (1-based) of the iteration:
\* it stops at the end of the map or when count reaches limit.
RECURSIVE RangeLoop(_, _, _, _)
RangeLoop(items, pos, count, limit) ==
    IF pos <= Len(items) /\ count < limit
    THEN <<items[pos]>> \o RangeLoop(items, pos + 1, count + 1, limit)
    ELSE <<>>

MinInt(a, b) == IF a <= b THEN a ELSE b

\* LoadRange whose loop tests count <= limit.
LoadRange_OneMore(st, offset, limit) ==
    LET loaded == LoadIndex(st)
        items == MapValues(loaded.memoryIndex)
    IN  [loaded EXCEPT !.ret = RangeLoop(items, MinInt(offset, Len(items)) + 1,
                                         0, limit + 1)]

\* LoadRange, for offset >= 0: std::advance(it, n) from begin() with a
\* negative n is undefined, and no caller of the model passes one.
LoadRange(st, offset, limit) ==
    LET loaded == LoadIndex(st)
        items == MapValues(loaded.memoryIndex)
    IN  [loaded EXCEPT !.ret = RangeLoop(items, MinInt(offset, Len(items)) + 1,
                                         0, limit)]

\* LoadByIds that walks the index and keeps the records whose id was asked.
LoadByIds_IndexOrder(st, ids) ==
    LET loaded == LoadIndex(st)
    IN  [loaded EXCEPT !.ret = SelectSeq(MapValues(loaded.memoryIndex),
                                         LAMBDA s : \E i \in 1..Len(ids) : ids[i] = s.id)]

\* The loop of LoadByIds over the ids of the caller, in their order.
RECURSIVE FindEach(_, _)
FindEach(m, ids) ==
    IF ids = <<>> THEN <<>>
    ELSE (IF Head(ids) \in DOMAIN m THEN <<m[Head(ids)]>> ELSE <<>>)
         \o FindEach(m, Tail(ids))

LoadByIds(st, ids) ==
    LET loaded == LoadIndex(st)
    IN  [loaded EXCEPT !.ret = FindEach(loaded.memoryIndex, ids)]

\* The constructor on the files of st: an instance that has read nothing.
WALJsonStorage(st, compactAfter) ==
    [st EXCEPT !.memoryIndex = EmptyIndex, !.deletedIds = {},
               !.operationsSinceCompact = 0, !.compactThreshold = compactAfter,
               !.indexLoaded = FALSE,
               !.err = "none", !.halted = FALSE, !.ret = <<>>, !.flag = FALSE]

(***************************************************************************)
(* The state machine.                                                      *)
(***************************************************************************)
Thresholds == 1..MaxThreshold

\* The arguments of Save: no record, one record, two records in ascending and
\* in descending id order, and two records of the same id.
SaveInputs ==
    { <<>>,
      <<MkStudent(1, "Ann", "Lee", "G1", <<>>)>>,
      <<MkStudent(1, "Bob", "Lee", "G1", <<>>),
        MkStudent(2, "Ann", "Ray", "", <<MkGrade("math", 90)>>)>>,
      <<MkStudent(2, "Ann", "Ray", "", <<MkGrade("math", 90)>>),
        MkStudent(1, "Ann", "Lee", "G1", <<>>)>>,
      <<MkStudent(1, "Ann", "Lee", "G1", <<>>),
        MkStudent(1, "Bob", "Lee", "G1", <<>>)>> }

\* The current state as a state record, no call in progress.
Cur ==
    [memoryIndex |-> memoryIndex, deletedIds |-> deletedIds,
     operationsSinceCompact |-> operationsSinceCompact,
     compactThreshold |-> compactThreshold, indexLoaded |-> indexLoaded,
     dataFile |-> dataFile, walFile |-> walFile,
     err |-> "none", halted |-> FALSE, ret |-> <<>>, flag |-> FALSE,
     onUB |-> "throw"]

\* The engine used on its own: no service object.  A service holds its
\* kind ("student" or "group"), the items vector of BaseService, nextId of
\* its SequentialIdGenerator, and for a GroupService the file of its
\* JsonStorage.
NoService ==
    [kind |-> "none", items |-> <<>>, nextId |-> 1,
     file |-> [kind |-> "absent", elems |-> <<>>]]

\* The fields and files of the engine after a call.
CommitStorage(r) ==
    /\ ~r.halted
    /\ Len(r.walFile.lines) <= MaxWal
    /\ memoryIndex' = r.memoryIndex
    /\ deletedIds' = r.deletedIds
    /\ operationsSinceCompact' = r.operationsSinceCompact
    /\ compactThreshold' = r.compactThreshold
    /\ indexLoaded' = r.indexLoaded
    /\ dataFile' = r.dataFile
    /\ walFile' = r.walFile

\* A call on the engine returned (or threw): its state is the next state.
Commit(r) ==
    /\ CommitStorage(r)
    /\ service' = service

\* last.env is the environment of the call and last.faults the number of
\* calls so far during which a file failed to open.
Call(name, i, arg, r) ==
    [op |-> name, id |-> i, arg |-> arg, err |-> r.err, ret |-> r.ret, flag |-> r.flag,
     env |-> NoFault, faults |-> last.faults]

\* The constructor: nothing is read, both files are as they are on disk.
\* At the start neither file exists.
Init ==
    /\ memoryIndex = EmptyIndex
    /\ deletedIds = {}
    /\ operationsSinceCompact = 0
    /\ compactThreshold \in Thresholds
    /\ indexLoaded = FALSE
    /\ dataFile = [kind |-> "absent", elems |-> <<>>]
    /\ walFile = [exists |-> FALSE, lines |-> <<>>]
    /\ service = NoService
    /\ last = [op |-> "new", id |-> 0, arg |-> <<>>, err |-> "none", ret |-> <<>>,
               flag |-> FALSE, env |-> NoFault, faults |-> 0]

InsertCall ==
    \E item \in Students :
        LET r == Insert(Cur, item, NoFault)
        IN  Commit(r) /\ last' = Call("Insert", item.id, <<item>>, r)

UpdateCall ==
    \E item \in Students :
        LET r == Update(Cur, item, NoFault)
        IN  Commit(r) /\ last' = Call("Update", item.id, <<item>>, r)

DeleteCall ==
    \E id \in Ids :
        LET r == Delete(Cur, id, NoFault)
        IN  Commit(r) /\ last' = Call("Delete", id, <<>>, r)

SaveCall ==
    \E items \in SaveInputs :
        LET r == Save(Cur, items, NoFault)
        IN  Commit(r) /\ last' = Call("Save", 0, items, r)

ClearCall ==
    LET r == Clear(Cur, NoFault)
    IN  Commit(r) /\ last' = Call("Clear", 0, <<>>, r)

ForceCompactCall ==
    LET r == ForceCompact(Cur, NoFault)
    IN  Commit(r) /\ last' = Call("ForceCompact", 0, <<>>, r)

LoadByIdCall ==
    \E id \in Ids :
        LET r == LoadById(Cur, id)
        IN  Commit(r) /\ last' = Call("LoadById", id, <<>>, r)

LoadAllCall ==
    LET r == LoadAll(Cur)
    IN  Commit(r) /\ last' = Call("LoadAll", 0, <<>>, r)

ExistsCall ==
    \E id \in Ids :
        LET r == Exists(Cur, id)
        IN  Commit(r) /\ last' = Call("Exists", id, <<>>, r)

\* The process ends between two calls and the program is started again: a
\* new instance is constructed on the same two files.
Reopen ==
    LET r == WALJsonStorage(Cur, compactThreshold)
    IN  Commit(r) /\ last' = Call("new", 0, <<>>, r)

\* The calls that can reach Compact, run with the process stopping inside
\* Compact after the snapshot is written and before the journal is truncated.
StoppedInCompact ==
    LET env == [NoFault EXCEPT !.stop = "afterSnapshot"]
        all == {Insert(Cur, item, env) : item \in Students}
               \cup {Update(Cur, item, env) : item \in Students}
               \cup {Delete(Cur, id, env) : id \in Ids}
               \cup {Save(Cur, items, env) : items \in SaveInputs}
               \cup {Clear(Cur, env), ForceCompact(Cur, env)}
    IN  {r \in all : r.halted}

\* Such a stop, followed by the start of a new instance on the files the
\* stopped process left.  last.ret keeps the records that Compact was writing.
CrashInCompact ==
    \E r \in StoppedInCompact :
        /\ Commit(WALJsonStorage(r, compactThreshold))
        /\ last' = [op |-> "CrashInCompact", id |-> 0, arg |-> <<>>, err |-> "none",
                    ret |-> MapValues(r.memoryIndex), flag |-> FALSE,
                    env |-> NoFault, faults |-> last.faults]

\* The same calls, run with the process stopping inside Compact while the
\* snapshot is being written, followed by the start of a new instance.
StoppedInSnapshotWrite ==
    LET env == [NoFault EXCEPT !.stop = "inSnapshotWrite"]
        all == {Insert(Cur, item, env) : item \in Students}
               \cup {Update(Cur, item, env) : item \in Students}
               \cup {Delete(Cur, id, env) : id \in Ids}
               \cup {Save(Cur, items, env) : items \in SaveInputs}
               \cup {Clear(Cur, env), ForceCompact(Cur, env)}
    IN  {r \in all : r.halted}

CrashInSnapshotWrite ==
    \E r \in StoppedInSnapshotWrite :
        /\ Commit(WALJsonStorage(r, compactThreshold))
        /\ last' = [op |-> "CrashInSnapshotWrite", id |-> 0, arg |-> <<>>,
                    err |-> "none", ret |-> MapValues(r.memoryIndex), flag |-> FALSE,
                    env |-> NoFault, faults |-> last.faults]

Next ==
    \/ InsertCall
    \/ UpdateCall
    \/ DeleteCall
    \/ SaveCall
    \/ ClearCall
    \/ ForceCompactCall
    \/ LoadByIdCall
    \/ LoadAllCall
    \/ ExistsCall
    \/ Reopen
    \/ CrashInCompact

Spec == Init /\ [][Next]_vars

(***************************************************************************)
(* Replay on its own: any index, any journal of at most MaxWal entries,    *)
(* and ApplyWAL run on them up to MaxReplays times without truncation.     *)
(***************************************************************************)
AllLines ==
    {OperationToJson(MkOp(t, s.id, s)) : t \in {INSERT, UPDATE}, s \in Students}
    \cup {OperationToJson(MkOp(DELETE, i, DefaultStudent)) : i \in Ids}

AllJournals == UNION {[1..n -> AllLines] : n \in 0..MaxWal}

AllIndexes ==
    {PutAll(EmptyIndex, items) : items \in UNION {[1..n -> Students] : n \in 0..2}}

InitReplay ==
    /\ memoryIndex \in AllIndexes
    /\ deletedIds = {}
    /\ operationsSinceCompact = 0
    /\ compactThreshold = 1
    /\ indexLoaded = FALSE
    /\ dataFile = [kind |-> "absent", elems |-> <<>>]
    /\ walFile \in {[exists |-> TRUE, lines |-> j] : j \in AllJournals}
    /\ service = NoService
    /\ last = [op |-> "new", id |-> 0, arg |-> <<>>, err |-> "none", ret |-> <<>>,
               flag |-> FALSE, env |-> NoFault, faults |-> 0]

\* One run of ApplyWAL; last.id counts the runs.
ReplayStep ==
    /\ last.id < MaxReplays
    /\ LET r == ApplyWAL(Cur)
       IN  Commit(r) /\ last' = Call("ApplyWAL", last.id + 1, <<>>, r)

NextReplay == ReplayStep

SpecReplay == InitReplay /\ [][NextReplay]_vars

(***************************************************************************)
(* The query path on the files of an earlier run: the snapshot is what     *)
(* Compact wrote for some set of records with ids 1..3, the journal is     *)
(* empty, and a new instance answers LoadRange and LoadByIds between       *)
(* inserts and deletes.                                                    *)
(***************************************************************************)
Ann1 == MkStudent(1, "Ann", "Lee", "G1", <<>>)
Bob1 == MkStudent(1, "Bob", "Lee", "G1", <<>>)
Ann2 == MkStudent(2, "Ann", "Ray", "", <<MkGrade("math", 90)>>)

QueryStudents == {Ann1, Ann2, MkStudent(3, "Cy", "Orr", "G2", <<>>)}

\* The snapshot Compact writes for the index that holds the records of S.
SnapshotOf(S) ==
    LET m == [k \in {s.id : s \in S} |-> CHOOSE s \in S : s.id = k]
        allItems == MapValues(m)
    IN  [kind |-> "array",
         elems |-> [i \in 1..Len(allItems) |-> StudentToJson(allItems[i])]]

Offsets == 0..MaxOffset
Limits == (0 - 1)..MaxLimit

\* The id vectors passed to LoadByIds, over id 0, which is never in the
\* index, and the smallest and the largest id of the records.
AskedIds == {0} \cup {s.id : s \in QueryStudents \ {Ann2}}
IdLists == UNION {[1..n -> AskedIds] : n \in 0..MaxIds}

InitQuery ==
    /\ memoryIndex = EmptyIndex
    /\ deletedIds = {}
    /\ operationsSinceCompact = 0
    /\ compactThreshold = MaxThreshold
    /\ indexLoaded = FALSE
    /\ dataFile \in {SnapshotOf(S) : S \in SUBSET QueryStudents}
    /\ walFile = [exists |-> TRUE, lines |-> <<>>]
    /\ service = NoService
    /\ last = [op |-> "new", id |-> 0, arg |-> <<>>, err |-> "none", ret |-> <<>>,
               flag |-> FALSE, env |-> NoFault, faults |-> 0]

\* last.id is the offset.
LoadRangeCall ==
    \E offset \in Offsets, limit \in Limits :
        LET r == LoadRange(Cur, offset, limit)
        IN  Commit(r) /\ last' = Call("LoadRange", offset, <<>>, r)

\* last.id is the number of ids asked.
LoadByIdsCall ==
    \E ids \in IdLists :
        LET r == LoadByIds(Cur, ids)
        IN  Commit(r) /\ last' = Call("LoadByIds", Len(ids), <<>>, r)

NextQuery ==
    \/ LoadRangeCall
    \/ LoadByIdsCall
    \/ InsertCall
    \/ DeleteCall

SpecQuery == InitQuery /\ [][NextQuery]_vars

(***************************************************************************)
(* I/O failures: every write call runs in an environment in which the      *)
(* journal and the snapshot each open or fail to open (for the whole       *)
(* call); last.env keeps the environment of the call.                      *)
(***************************************************************************)
Envs ==
    {e \in {[wal |-> w, data |-> d, stop |-> "none"] :
                w \in {"ok", "fail"}, d \in {"ok", "fail"}} :
        e = NoFault \/ last.faults < MaxFaults}

CallEnv(name, i, arg, r, env) ==
    [Call(name, i, arg, r) EXCEPT
         !.env = env,
         !.faults = IF env = NoFault THEN last.faults ELSE last.faults + 1]

\* A compaction that fails leaves the counter at or above the threshold, and
\* every later write increments it.
CommitIO(r) ==
    /\ r.operationsSinceCompact <= r.compactThreshold + MaxOverdue
    /\ Commit(r)

InsertIO ==
    \E item \in Students, env \in Envs :
        LET r == Insert(Cur, item, env)
        IN  CommitIO(r) /\ last' = CallEnv("Insert", item.id, <<item>>, r, env)

UpdateIO ==
    \E item \in Students, env \in Envs :
        LET r == Update(Cur, item, env)
        IN  CommitIO(r) /\ last' = CallEnv("Update", item.id, <<item>>, r, env)

DeleteIO ==
    \E id \in Ids, env \in Envs :
        LET r == Delete(Cur, id, env)
        IN  CommitIO(r) /\ last' = CallEnv("Delete", id, <<>>, r, env)

SaveIO ==
    \E items \in SaveInputs, env \in Envs :
        LET r == Save(Cur, items, env)
        IN  CommitIO(r) /\ last' = CallEnv("Save", 0, items, r, env)

ClearIO ==
    \E env \in Envs :
        LET r == Clear(Cur, env)
        IN  CommitIO(r) /\ last' = CallEnv("Clear", 0, <<>>, r, env)

ForceCompactIO ==
    \E env \in Envs :
        LET r == ForceCompact(Cur, env)
        IN  CommitIO(r) /\ last' = CallEnv("ForceCompact", 0, <<>>, r, env)

NextIO ==
    \/ InsertIO
    \/ UpdateIO
    \/ DeleteIO
    \/ SaveIO
    \/ ClearIO
    \/ ForceCompactIO
    \/ LoadAllCall
    \/ Reopen

SpecIO == Init /\ [][NextIO]_vars

\* The reads, between the single-record writes and restarts that give them
\* loaded and not yet loaded instances to read.
NextReads ==
    \/ LoadByIdCall
    \/ LoadAllCall
    \/ ExistsCall
    \/ InsertCall
    \/ UpdateCall
    \/ DeleteCall
    \/ Reopen

SpecReads == Init /\ [][NextReads]_vars

\* The calls of Next with a stop of the process at either point of Compact.
NextCrash ==
    \/ InsertCall
    \/ DeleteCall
    \/ ForceCompactCall
    \/ LoadAllCall
    \/ CrashInCompact
    \/ CrashInSnapshotWrite

SpecCrash == Init /\ [][NextCrash]_vars

\* The three single-record writes in an environment in which the journal
\* opens or fails to open while the snapshot opens, and the restart.
AppendEnvs == {e \in Envs : e.data = "ok"}

InsertAppend ==
    \E item \in Students, env \in AppendEnvs :
        LET r == Insert(Cur, item, env)
        IN  Commit(r) /\ last' = CallEnv("Insert", item.id, <<item>>, r, env)

UpdateAppend ==
    \E item \in Students, env \in AppendEnvs :
        LET r == Update(Cur, item, env)
        IN  Commit(r) /\ last' = CallEnv("Update", item.id, <<item>>, r, env)

DeleteAppend ==
    \E id \in Ids, env \in AppendEnvs :
        LET r == Delete(Cur, id, env)
        IN  Commit(r) /\ last' = CallEnv("Delete", id, <<>>, r, env)

NextAppend ==
    \/ InsertAppend
    \/ UpdateAppend
    \/ DeleteAppend
    \/ Reopen

\* The engine constructed with the largest threshold explored.
InitAppend == Init /\ compactThreshold = MaxThreshold

SpecAppend == InitAppend /\ [][NextAppend]_vars

\* The three single-record writes in an environment in which the snapshot
\* opens or fails to open for writing while the journal opens, the read of
\* all records and the restart.
DataFaultEnvs == {e \in Envs : e.wal = "ok"}

InsertDataFault ==
    \E item \in Students, env \in DataFaultEnvs :
        LET r == Insert(Cur, item, env)
        IN  Commit(r) /\ last' = CallEnv("Insert", item.id, <<item>>, r, env)

UpdateDataFault ==
    \E item \in Students, env \in DataFaultEnvs :
        LET r == Update(Cur, item, env)
        IN  Commit(r) /\ last' = CallEnv("Update", item.id, <<item>>, r, env)

DeleteDataFault ==
    \E id \in Ids, env \in DataFaultEnvs :
        LET r == Delete(Cur, id, env)
        IN  Commit(r) /\ last' = CallEnv("Delete", id, <<>>, r, env)

NextDataFault ==
    \/ InsertDataFault
    \/ UpdateDataFault
    \/ DeleteDataFault
    \/ LoadAllCall
    \/ Reopen

SpecDataFault == Init /\ [][NextDataFault]_vars

(***************************************************************************)
(* Files the engine finds at its first access and did not write itself:    *)
(* a snapshot that is absent, not JSON, JSON but not an array, or an array *)
(* with an element that does not decode; a journal that is absent or holds *)
(* lines that are not JSON, whose payload does not decode, or that lack    *)
(* the keys FromJson reads.                                                *)
(***************************************************************************)
\* A record object whose "firstName" is empty: Student::FromJson throws.
NamelessJson(s) == [StudentToJson(s) EXCEPT !.firstName = ""]

FoundSnapshots ==
    { [kind |-> "absent", elems |-> <<>>],
      [kind |-> "unparseable", elems |-> <<>>],
      [kind |-> "object", elems |-> <<>>],
      [kind |-> "array", elems |-> <<>>],
      [kind |-> "array", elems |-> <<StudentToJson(Ann1)>>],
      [kind |-> "array", elems |-> <<StudentToJson(Ann1), StudentToJson(Ann2)>>],
      [kind |-> "array", elems |-> <<StudentToJson(Ann1), NamelessJson(Ann2)>>],
      [kind |-> "array", elems |-> <<NamelessJson(Ann1), StudentToJson(Ann2)>>] }

\* A line that is not JSON, an Insert line whose payload does not decode,
\* and a JSON object without "type", "id" and "timestamp".
TornLine == [parses |-> FALSE, hasKeys |-> FALSE, type |-> INSERT, id |-> 0, data |-> <<>>]
NamelessLine == [OperationToJson(MkOp(INSERT, 1, Ann1)) EXCEPT !.data = <<NamelessJson(Ann1)>>]
KeylessLine == [parses |-> TRUE, hasKeys |-> FALSE, type |-> INSERT, id |-> 0, data |-> <<>>]

FoundLines ==
    { OperationToJson(MkOp(INSERT, 1, Ann1)),
      OperationToJson(MkOp(UPDATE, 1, Bob1)),
      OperationToJson(MkOp(INSERT, 2, Ann2)),
      OperationToJson(MkOp(DELETE, 1, DefaultStudent)),
      TornLine, NamelessLine, KeylessLine }

FoundJournals ==
    {[exists |-> FALSE, lines |-> <<>>]}
    \cup {[exists |-> TRUE, lines |-> j] : j \in UNION {[1..n -> FoundLines] : n \in 0..MaxWal}}

InitFiles ==
    /\ memoryIndex = EmptyIndex
    /\ deletedIds = {}
    /\ operationsSinceCompact = 0
    /\ compactThreshold = MaxThreshold
    /\ indexLoaded = FALSE
    /\ dataFile \in FoundSnapshots
    /\ walFile \in FoundJournals
    /\ service = NoService
    /\ last = [op |-> "new", id |-> 0, arg |-> <<>>, err |-> "none", ret |-> <<>>,
               flag |-> FALSE, env |-> NoFault, faults |-> 0]

\* LoadAll in a build in which the read of a missing key ends the process
\* (every call that loads the index ends the same way); the program is then
\* started again on the same files.
LoadAllAborts ==
    LET r == LoadAll([Cur EXCEPT !.onUB = "abort"])
    IN  /\ r.halted
        /\ Commit(WALJsonStorage(r, compactThreshold))
        /\ last' = Call("LoadAllAborts", 0, <<>>, WALJsonStorage(r, compactThreshold))

NextFiles ==
    \/ LoadAllCall
    \/ LoadAllAborts
    \/ InsertCall
    \/ DeleteCall

SpecFiles == InitFiles /\ [][NextFiles]_vars

(***************************************************************************)
(* The service layer: BLL::StudentService on a WALJsonStorage reached      *)
(* through UniversalStorageAdapter, and BLL::GroupService on a JsonStorage. *)
(* A service call works on the record sv: the fields of `service`, the      *)
(* engine state st, and err/ret/flag for the outcome of the call.           *)
(***************************************************************************)
MaxItems == 2          \* the longest items vector explored
MaxStudentId == 3      \* the largest student id explored

NameLimit == 50            \* StudentValidator: longest first or last name
GroupNameLimit == 20       \* GroupValidator: longest group name
FactoryCompactAfter == 50  \* the threshold StorageFactory gives the engine

LongName == "Maximiliana-Alexandrina-Wilhelmina-Bartholomea-Rose"
LongGroupName == "Evening-Group-2026-AB"

\* std::string::length() of the strings the calls pass.
Length(s) ==
    CASE s = "" -> 0
      [] s = LongName -> 51
      [] s = LongGroupName -> 21
      [] s \in {"G1", "G2", "CS", "SE"} -> 2
      [] OTHER -> 3

\* StudentValidator::ValidateStudent: the exception it throws, or "none".
ValidateStudent(firstName, lastName) ==
    IF firstName = "" \/ lastName = "" THEN "ValidationException"
    ELSE IF Length(firstName) > NameLimit \/ Length(lastName) > NameLimit
         THEN "ValidationException"
         ELSE "none"

\* StudentValidator::ValidateGrade.
ValidateGrade(score) ==
    IF score < 0 \/ score > 100 THEN "InvalidGradeException" ELSE "none"

\* GroupValidator::ValidateGroup.
ValidateGroup(name) ==
    IF name = "" THEN "ValidationException"
    ELSE IF Length(name) > GroupNameLimit THEN "ValidationException"
         ELSE "none"

\* Group and its JSON form; the constructor and SetYear accept year 0 and
\* the years 1..6.
MkGroup(groupName, spec, y) == [name |-> groupName, specialization |-> spec, year |-> y]

ValidateYear(y) == ~(y < 1 \/ y > 6)

GroupValid(groupName, y) == groupName # "" /\ (y > 0 => ValidateYear(y))

GroupToJson(g) == [name |-> g.name, specialization |-> g.specialization, year |-> g.year]

GroupFromJson(j) ==
    IF GroupValid(j.name, j.year)
    THEN [ok |-> TRUE, val |-> MkGroup(j.name, j.specialization, j.year)]
    ELSE [ok |-> FALSE, val |-> MkGroup("", "", 0)]

\* JsonStorage<Group>::Save writes the array of the items' JSON forms.
JsonStorageSave(items) ==
    [kind |-> "array", elems |-> [i \in 1..Len(items) |-> GroupToJson(items[i])]]

\* JsonStorage<Group>::Load: an absent file reads as the empty array; a file
\* that does not parse, is not an array or holds an element the constructor
\* rejects makes Load throw DataAccessException.
JsonStorageLoad(file) ==
    IF file.kind = "absent" THEN [ok |-> TRUE, items |-> <<>>]
    ELSE IF file.kind # "array" THEN [ok |-> FALSE, items |-> <<>>]
    ELSE IF \E i \in 1..Len(file.elems) : ~GroupFromJson(file.elems[i]).ok
         THEN [ok |-> FALSE, items |-> <<>>]
         ELSE [ok |-> TRUE,
               items |-> [i \in 1..Len(file.elems) |-> GroupFromJson(file.elems[i]).val]]

Throw(sv, e) == [sv EXCEPT !.err = e]

\* BaseService::SaveData: storage->Save(items).  UniversalStorageAdapter
\* passes it to WALJsonStorage::Save, whose std::runtime_error is not a
\* DataAccessException and passes through.
SaveData(sv) ==
    IF sv.kind = "student"
    THEN LET saved == Save(sv.st, sv.items, NoFault)
         IN  [sv EXCEPT !.st = [saved EXCEPT !.err = "none", !.ret = <<>>],
                        !.err = saved.err]
    ELSE [sv EXCEPT !.file = JsonStorageSave(sv.items)]

\* BaseService::LoadData in the constructor of the service.
LoadData(sv) ==
    IF sv.kind = "student"
    THEN LET loaded == LoadAll(sv.st)
         IN  [sv EXCEPT !.st = [loaded EXCEPT !.ret = <<>>], !.items = loaded.ret]
    ELSE LET loaded == JsonStorageLoad(sv.file)
         IN  IF loaded.ok THEN [sv EXCEPT !.items = loaded.items]
             ELSE Throw(sv, "BusinessLogicException")

\* StudentService(dataStorage) and GroupService(dataStorage): LoadData and,
\* for students, a new SequentialIdGenerator.
NewService(sv) == LoadData([sv EXCEPT !.items = <<>>, !.nextId = 1])

\* BaseService::GetAll.
GetAll(sv) == sv.items

\* std::find_if by id and the loop of GetStudentById: the first position of
\* items whose student has the id, 0 when there is none.
FindById(items, studentId) ==
    IF \E i \in 1..Len(items) : items[i].id = studentId
    THEN CHOOSE i \in 1..Len(items) :
             /\ items[i].id = studentId
             /\ \A k \in 1..(i - 1) : items[k].id # studentId
    ELSE 0

\* std::find_if by name: the first position of items whose group has the
\* name, 0 when there is none.
FindByName(items, name) ==
    IF \E i \in 1..Len(items) : items[i].name = name
    THEN CHOOSE i \in 1..Len(items) :
             /\ items[i].name = name
             /\ \A k \in 1..(i - 1) : items[k].name # name
    ELSE 0

\* vector::erase of position i.
Erase(items, i) ==
    [k \in 1..(Len(items) - 1) |-> IF k < i THEN items[k] ELSE items[k + 1]]

\* SequentialIdGenerator::GenerateNext and Initialize; ret holds the id.
GenerateNext(sv) == [sv EXCEPT !.ret = <<sv.nextId>>, !.nextId = sv.nextId + 1]

Initialize(sv, maxExistingId) == [sv EXCEPT !.nextId = maxExistingId + 1]

\* The loop of GenerateId: the largest id of items, 0 when none is positive.
MaxIdOf(items) ==
    LET ids == {items[i].id : i \in 1..Len(items)} \cup {0}
    IN  CHOOSE m \in ids : \A k \in ids : k <= m

\* GenerateId that numbers the new student by the size of items.
GenerateId_BySize(sv) == [sv EXCEPT !.ret = <<Len(sv.items) + 1>>]

\* StudentService::GenerateId.
GenerateId(sv) ==
    IF sv.items = <<>> THEN GenerateNext(sv)
    ELSE GenerateNext(Initialize(sv, MaxIdOf(sv.items)))

\* IsDuplicate that finds no stored student.
IsDuplicate_Never(items, firstName, lastName, groupName) == FALSE

\* StudentService::IsDuplicate.
IsDuplicate(items, firstName, lastName, groupName) ==
    \E i \in 1..Len(items) :
        /\ items[i].firstName = firstName
        /\ items[i].lastName = lastName
        /\ items[i].groupName = groupName

\* StudentService::AddStudent; ret holds the student returned.
AddStudent(sv, firstName, lastName, groupName) ==
    IF ValidateStudent(firstName, lastName) # "none"
    THEN Throw(sv, ValidateStudent(firstName, lastName))
    ELSE IF IsDuplicate(sv.items, firstName, lastName, groupName)
    THEN Throw(sv, "DuplicateEntityException")
    ELSE LET generated == GenerateId(sv)
             student == MkStudent(generated.ret[1], firstName, lastName, groupName, <<>>)
             saved == SaveData([generated EXCEPT !.items = Append(@, student),
                                                 !.ret = <<>>])
         IN  IF saved.err = "none" THEN [saved EXCEPT !.ret = <<student>>] ELSE saved

\* RemoveStudent that returns normally when no student has the id.
RemoveStudent_Silent(sv, studentId) ==
    LET it == FindById(sv.items, studentId)
    IN  IF it = 0 THEN SaveData(sv)
        ELSE SaveData([sv EXCEPT !.items = Erase(@, it)])

\* StudentService::RemoveStudent.
RemoveStudent(sv, studentId) ==
    LET it == FindById(sv.items, studentId)
    IN  IF it = 0 THEN Throw(sv, "StudentNotFoundException")
        ELSE SaveData([sv EXCEPT !.items = Erase(@, it)])

\* StudentService::UpdateStudent: each non-empty argument is validated and
\* set in turn, so a last name that is rejected leaves the first name set.
UpdateStudent(sv, studentId, firstName, lastName, groupName) ==
    LET it == FindById(sv.items, studentId)
    IN  IF it = 0 THEN Throw(sv, "StudentNotFoundException")
        ELSE IF firstName # "" /\ ValidateStudent(firstName, sv.items[it].lastName) # "none"
        THEN Throw(sv, "ValidationException")
        ELSE LET one == IF firstName # ""
                        THEN [sv EXCEPT !.items[it].firstName = firstName]
                        ELSE sv
             IN  IF lastName # "" /\ ValidateStudent(one.items[it].firstName, lastName) # "none"
                 THEN Throw(one, "ValidationException")
                 ELSE LET two == IF lastName # ""
                                 THEN [one EXCEPT !.items[it].lastName = lastName]
                                 ELSE one
                      IN  SaveData(IF groupName # ""
                                   THEN [two EXCEPT !.items[it].groupName = groupName]
                                   ELSE two)

\* StudentService::GetStudentById: the position in items, 0 for nullptr.
GetStudentById(sv, studentId) == FindById(sv.items, studentId)

\* Student::RemoveGrade: every grade of the subject goes.
RemoveGrade(gr, subject) == SelectSeq(gr, LAMBDA g : g.subject # subject)

\* StudentService::AddGradeToStudent: the score is validated before the
\* student is looked up.
AddGradeToStudent(sv, studentId, subject, score) ==
    IF ValidateGrade(score) # "none" THEN Throw(sv, ValidateGrade(score))
    ELSE LET student == GetStudentById(sv, studentId)
         IN  IF student = 0 THEN Throw(sv, "StudentNotFoundException")
             ELSE SaveData([sv EXCEPT !.items[student].grades =
                                          AddGrade(@, MkGrade(subject, score))])

\* StudentService::RemoveGradeFromStudent.
RemoveGradeFromStudent(sv, studentId, subject) ==
    LET student == GetStudentById(sv, studentId)
    IN  IF student = 0 THEN Throw(sv, "StudentNotFoundException")
        ELSE SaveData([sv EXCEPT !.items[student].grades = RemoveGrade(@, subject)])

\* GroupService::IsDuplicate.
IsDuplicateGroup(items, name) == \E i \in 1..Len(items) : items[i].name = name

\* GroupService::AddGroup: the constructor of Group throws
\* std::invalid_argument for a year above 6.
AddGroup(sv, name, specialization, year) ==
    IF ValidateGroup(name) # "none" THEN Throw(sv, ValidateGroup(name))
    ELSE IF IsDuplicateGroup(sv.items, name) THEN Throw(sv, "DuplicateEntityException")
    ELSE IF ~GroupValid(name, year) THEN Throw(sv, "invalid_argument")
    ELSE LET group == MkGroup(name, specialization, year)
             saved == SaveData([sv EXCEPT !.items = Append(@, group)])
         IN  [saved EXCEPT !.ret = <<group>>]

\* GroupService::RemoveGroup.
RemoveGroup(sv, name) ==
    LET it == FindByName(sv.items, name)
    IN  IF it = 0 THEN Throw(sv, "GroupNotFoundException")
        ELSE SaveData([sv EXCEPT !.items = Erase(@, it)])

\* GroupService::UpdateGroup: the specialization is set before SetYear
\* validates the year.
UpdateGroup(sv, name, specialization, year) ==
    LET it == FindByName(sv.items, name)
    IN  IF it = 0 THEN Throw(sv, "GroupNotFoundException")
        ELSE LET one == IF specialization # ""
                        THEN [sv EXCEPT !.items[it].specialization = specialization]
                        ELSE sv
             IN  IF year > 0 /\ ~ValidateYear(year) THEN Throw(one, "invalid_argument")
                 ELSE SaveData(IF year > 0
                               THEN [one EXCEPT !.items[it].year = year]
                               ELSE one)

(***************************************************************************)
(* SpecService: one service object at a time, a StudentService or a        *)
(* GroupService (the two share no state), the calls that add, remove and   *)
(* update its entities, and a restart of the program on the files it left. *)
(* SpecGrades: the grade calls on a StudentService that holds one student. *)
(***************************************************************************)
StudentInputs ==
    { <<"Ann", "Lee", "G1">>, <<"Bob", "Lee", "G1">>,
      <<"", "Lee", "G1">>, <<"Ann", "", "G1">>, <<LongName, "Lee", "G1">> }

StudentUpdates ==
    { <<"Bob", "", "">>, <<"", "", "G2">>, <<"Bob", LongName, "">>,
      <<LongName, "", "">> }

StudentIds == 1..MaxStudentId

Subjects == {"math", "art"}

Scores == {0 - 1, 0, 60, 100, 101}

GroupNames == {"G1", "G2", "", LongGroupName}

GroupInputs == {<<name, "CS", y>> : name \in GroupNames, y \in {0, 1, 7}}

GroupUpdates == {<<"", 0>>, <<"SE", 2>>, <<"SE", 7>>}

CurService ==
    [kind |-> service.kind, items |-> service.items, nextId |-> service.nextId,
     file |-> service.file, st |-> Cur, err |-> "none", ret |-> <<>>, flag |-> FALSE]

\* A call on the service returned (or threw).
CommitService(r) ==
    /\ Len(r.items) <= MaxItems
    /\ r.nextId <= MaxStudentId + 1
    /\ CommitStorage(r.st)
    /\ service' = [kind |-> r.kind, items |-> r.items, nextId |-> r.nextId,
                   file |-> r.file]

\* The service constructed on storage that holds nothing yet: LoadData has
\* loaded the empty index of the engine, or read the absent file as empty.
InitService ==
    /\ service \in {[NoService EXCEPT !.kind = k] : k \in {"student", "group"}}
    /\ memoryIndex = EmptyIndex
    /\ deletedIds = {}
    /\ operationsSinceCompact = 0
    /\ compactThreshold = FactoryCompactAfter
    /\ indexLoaded = (service.kind = "student")
    /\ dataFile = [kind |-> "absent", elems |-> <<>>]
    /\ walFile = [exists |-> FALSE, lines |-> <<>>]
    /\ last = [op |-> "new", id |-> 0, arg |-> <<>>, err |-> "none", ret |-> <<>>,
               flag |-> FALSE, env |-> NoFault, faults |-> 0]

AddStudentCall ==
    /\ service.kind = "student"
    /\ \E in \in StudentInputs :
           LET r == AddStudent(CurService, in[1], in[2], in[3])
           IN  CommitService(r) /\ last' = Call("AddStudent", 0, <<in>>, r)

RemoveStudentCall ==
    /\ service.kind = "student"
    /\ \E id \in StudentIds :
           LET r == RemoveStudent(CurService, id)
           IN  CommitService(r) /\ last' = Call("RemoveStudent", id, <<>>, r)

UpdateStudentCall ==
    /\ service.kind = "student"
    /\ \E id \in StudentIds, in \in StudentUpdates :
           LET r == UpdateStudent(CurService, id, in[1], in[2], in[3])
           IN  CommitService(r) /\ last' = Call("UpdateStudent", id, <<in>>, r)

AddGradeToStudentCall ==
    /\ service.kind = "student"
    /\ \E id \in StudentIds, subject \in Subjects, score \in Scores :
           LET r == AddGradeToStudent(CurService, id, subject, score)
           IN  CommitService(r)
               /\ last' = Call("AddGradeToStudent", id, <<subject, score>>, r)

RemoveGradeFromStudentCall ==
    /\ service.kind = "student"
    /\ \E id \in StudentIds, subject \in Subjects :
           LET r == RemoveGradeFromStudent(CurService, id, subject)
           IN  CommitService(r)
               /\ last' = Call("RemoveGradeFromStudent", id, <<subject>>, r)

AddGroupCall ==
    /\ service.kind = "group"
    /\ \E in \in GroupInputs :
           LET r == AddGroup(CurService, in[1], in[2], in[3])
           IN  CommitService(r) /\ last' = Call("AddGroup", 0, <<in>>, r)

RemoveGroupCall ==
    /\ service.kind = "group"
    /\ \E name \in GroupNames :
           LET r == RemoveGroup(CurService, name)
           IN  CommitService(r) /\ last' = Call("RemoveGroup", 0, <<name>>, r)

UpdateGroupCall ==
    /\ service.kind = "group"
    /\ \E name \in GroupNames, in \in GroupUpdates :
           LET r == UpdateGroup(CurService, name, in[1], in[2])
           IN  CommitService(r) /\ last' = Call("UpdateGroup", 0, <<name, in>>, r)

\* The program starts again: a new engine instance on the same files and a
\* new service object on it.
RestartService ==
    LET r == NewService([CurService EXCEPT
                             !.st = WALJsonStorage(Cur, compactThreshold)])
    IN  CommitService(r) /\ last' = Call("NewService", 0, <<>>, r)

NextService ==
    \/ AddStudentCall
    \/ RemoveStudentCall
    \/ UpdateStudentCall
    \/ AddGroupCall
    \/ RemoveGroupCall
    \/ UpdateGroupCall
    \/ RestartService

SpecService == InitService /\ [][NextService]_vars

\* A StudentService constructed on empty storage, after
\* AddStudent("Ann", "Lee", "G1").
GradesStart ==
    LET storage == [memoryIndex |-> EmptyIndex, deletedIds |-> {},
                    operationsSinceCompact |-> 0,
                    compactThreshold |-> FactoryCompactAfter,
                    indexLoaded |-> FALSE,
                    dataFile |-> [kind |-> "absent", elems |-> <<>>],
                    walFile |-> [exists |-> FALSE, lines |-> <<>>],
                    err |-> "none", halted |-> FALSE, ret |-> <<>>,
                    flag |-> FALSE, onUB |-> "throw"]
        sv == [kind |-> "student", items |-> <<>>, nextId |-> 1,
               file |-> NoService.file, st |-> storage,
               err |-> "none", ret |-> <<>>, flag |-> FALSE]
    IN  AddStudent(NewService(sv), "Ann", "Lee", "G1")

InitGrades ==
    /\ service = [kind |-> "student", items |-> GradesStart.items,
                  nextId |-> GradesStart.nextId, file |-> GradesStart.file]
    /\ memoryIndex = GradesStart.st.memoryIndex
    /\ deletedIds = GradesStart.st.deletedIds
    /\ operationsSinceCompact = GradesStart.st.operationsSinceCompact
    /\ compactThreshold = GradesStart.st.compactThreshold
    /\ indexLoaded = GradesStart.st.indexLoaded
    /\ dataFile = GradesStart.st.dataFile
    /\ walFile = GradesStart.st.walFile
    /\ last = [op |-> "AddStudent", id |-> 0, arg |-> <<<<"Ann", "Lee", "G1">>>>,
               err |-> "none", ret |-> GradesStart.ret,
               flag |-> FALSE, env |-> NoFault, faults |-> 0]

NextGrades ==
    \/ AddGradeToStudentCall
    \/ RemoveGradeFromStudentCall
    \/ RestartService

SpecGrades == InitGrades /\ [][NextGrades]_vars

(***************************************************************************)
(* The claims.                                                             *)
(***************************************************************************)

\* A JSON object of the snapshot or of a journal entry read as the record it
\* denotes, and the replay of the core invariant: the snapshot's records
\* keyed by id, then the journal entries in order, Insert/Update as upsert
\* by id and Delete as remove by id.
AsRecord(j) == MkStudent(j.id, j.firstName, j.lastName, j.groupName, j.grades)

RECURSIVE ReplayEntries(_, _)
ReplayEntries(m, entries) ==
    IF entries = <<>> THEN m
    ELSE LET e == Head(entries)
         IN  ReplayEntries(IF e.type = DELETE THEN MapErase(m, e.id)
                           ELSE MapSet(m, e.id, AsRecord(e.data[1])),
                           Tail(entries))

RECURSIVE KeyedById(_, _)
KeyedById(m, elems) ==
    IF elems = <<>> THEN m
    ELSE KeyedById(MapSet(m, Head(elems).id, AsRecord(Head(elems))), Tail(elems))

Replay(snapshot, journal) == ReplayEntries(KeyedById(EmptyIndex, snapshot), journal)

\* C1: once the index is loaded, between completed calls, the memory index
\* equals the replay of the journal over the snapshot.
C1_CoreInvariant ==
    indexLoaded => memoryIndex = Replay(dataFile.elems, walFile.lines)

\* C1 witness: a loaded instance whose journal updates a record of a
\* non-empty snapshot.
C1_Witness ==
    /\ indexLoaded
    /\ Len(dataFile.elems) >= 1
    /\ Len(walFile.lines) >= 1
    /\ walFile.lines[1].type = UPDATE
    /\ memoryIndex # EmptyIndex

\* What loadAll() returns on a new instance opened on the files of this state.
FreshLoadAll == LoadAll(WALJsonStorage(Cur, compactThreshold)).ret

\* C2: a new instance opened on the same files returns from loadAll() what
\* the loaded instance returns.
C2_RestartEquivalence ==
    indexLoaded => FreshLoadAll = LoadAll(Cur).ret

\* C2 witness: a loaded instance with a record in the snapshot, a Delete in a
\* journal not yet compacted and a record still live.
C2_Witness ==
    /\ indexLoaded
    /\ Len(dataFile.elems) >= 1
    /\ \E i \in 1..Len(walFile.lines) : walFile.lines[i].type = DELETE
    /\ operationsSinceCompact >= 1
    /\ memoryIndex # EmptyIndex

\* C3: when the process stops in Compact after the snapshot write and before
\* the truncation, the next load yields the records that were being compacted.
C3_CrashSafety ==
    last.op = "CrashInCompact" => LoadAll(Cur).ret = last.ret

\* C4: replaying the journal a second time leaves the index as the first
\* replay left it.
C4_IdempotentReplay ==
    [][(last.op = "ApplyWAL" /\ last'.op = "ApplyWAL") => memoryIndex' = memoryIndex]_vars

\* C4 witness: a second replay of a two-entry journal holding a Delete, over
\* an index that was not empty, has run.
C4_Witness ==
    /\ last.op = "ApplyWAL"
    /\ last.id = 2
    /\ Len(walFile.lines) = 2
    /\ walFile.lines[1].type = DELETE
    /\ walFile.lines[2].type = UPDATE
    /\ Cardinality(DOMAIN memoryIndex) = 2

\* C5: forceCompact() on an instance that loadAll() has loaded leaves the
\* result of loadAll() as it was.
C5_CompactionEquivalence ==
    [][(last'.op = "ForceCompact" /\ indexLoaded) =>
           LoadAll(Cur)'.ret = LoadAll(Cur).ret]_vars

\* C5 witness: forceCompact() has run on a loaded instance that holds two
\* records, which are now the snapshot.
C5_Witness ==
    /\ last.op = "ForceCompact"
    /\ indexLoaded
    /\ Len(dataFile.elems) = 2
    /\ walFile.lines = <<>>
    /\ deletedIds = {}

\* C6: the write that brings the write counter to compactThreshold compacts
\* before it returns (counter 0, journal empty), and after every completed
\* write the counter is in 0..compactThreshold-1.
C6_ThresholdTrigger ==
    [][(last'.op \in {"Insert", "Update", "Delete"} /\ last'.err = "none") =>
           /\ (operationsSinceCompact + 1 = compactThreshold =>
                   operationsSinceCompact' = 0 /\ walFile'.lines = <<>>)
           /\ 0 <= operationsSinceCompact'
           /\ operationsSinceCompact' < compactThreshold']_vars

\* C6 witness: with a threshold above 1, a Delete was the write that
\* triggered the compaction.
C6_Witness ==
    /\ last.op = "Delete"
    /\ last.err = "none"
    /\ compactThreshold >= 2
    /\ operationsSinceCompact = 0
    /\ walFile.lines = <<>>
    /\ dataFile.kind = "array"
    /\ memoryIndex # EmptyIndex

\* The fold of C7 on what loadAll() returns: the records as a map by id.
ViewMap(st) == PutAll(EmptyIndex, LoadAll(st).ret)

\* C7: every call changes what loadAll() returns by its fold step and by
\* nothing else: insert/update upsert by id, delete removes by id, save
\* replaces, clear empties, a failed call and a compaction change nothing.
C7_ReadsObserveWrites ==
    [][LET before == ViewMap(Cur)
           after == ViewMap(Cur)'
       IN  /\ (last'.op \in {"Insert", "Update"} /\ last'.err = "none") =>
                   after = MapSet(before, last'.id, last'.arg[1])
           /\ (last'.op = "Delete" /\ last'.err = "none") =>
                   after = MapErase(before, last'.id)
           /\ (last'.op = "Save" /\ last'.err = "none") =>
                   after = PutAll(EmptyIndex, last'.arg)
           /\ (last'.op = "Clear" /\ last'.err = "none") => after = EmptyIndex
           /\ (last'.op \in {"ForceCompact", "LoadAll", "LoadById", "Exists"}
                 \/ last'.err # "none") => after = before]_vars

\* C8: update and delete of an id that is absent from the loaded index fail
\* with NotFound.
C8_AbsentIdNotFound ==
    [][(last'.op \in {"Update", "Delete"}
           /\ last'.id \notin DOMAIN LoadIndex(Cur).memoryIndex) =>
           last'.err = "NotFound"]_vars

\* C8 witness: a Delete failed with NotFound on an id that a Delete had
\* removed before, while another record is live.
C8_Witness ==
    /\ last.op = "Delete"
    /\ last.err = "NotFound"
    /\ last.id \in deletedIds
    /\ memoryIndex # EmptyIndex

\* C9: for every id, exists(id) is true exactly when loadById(id) returns a
\* record of that id and exactly when the id appears in loadAll(); when it
\* is false loadById(id) fails with NotFound.
C9_PointReadsAgree ==
    \A id \in Ids \cup {0} :
        LET e == Exists(Cur, id).flag
            r == LoadById(Cur, id)
            all == LoadAll(Cur).ret
        IN  /\ e <=> (r.err = "none" /\ Len(r.ret) = 1 /\ r.ret[1].id = id)
            /\ e <=> (\E i \in 1..Len(all) : all[i].id = id)
            /\ ~e => r.err = "NotFound"

\* C9 witness: loadById failed on a deleted id while the other id is live.
C9_Witness ==
    /\ last.op = "LoadById"
    /\ last.err = "NotFound"
    /\ last.id \in deletedIds
    /\ memoryIndex # EmptyIndex
    /\ Exists(Cur, last.id).flag = FALSE

\* C10: after insert(r), loadById(r.id) returns r.
C10_InsertRoundTrip ==
    (last.op = "Insert" /\ last.err = "none") =>
        LoadById(Cur, last.id).ret = last.arg

\* C10 witness: the insert replaced a record that an earlier Insert entry of
\* the same id, still in the journal, had stored with other content.
C10_Witness ==
    /\ last.op = "Insert"
    /\ last.err = "none"
    /\ Len(walFile.lines) = 2
    /\ walFile.lines[1].type = INSERT
    /\ walFile.lines[1].id = last.id
    /\ walFile.lines[1].data # walFile.lines[2].data
    /\ walFile.lines[2].data = <<StudentToJson(last.arg[1])>>

\* C11: in every reachable state loadAll() returns the live records in
\* strictly ascending id order, hence without duplicate ids, whatever the
\* order in which they were inserted, updated, bulk-saved or replayed: on
\* the same instance, on a fresh instance, and in the value a loadAll() call
\* has just returned.
Ascending(recs) == \A i, j \in 1..Len(recs) : i < j => recs[i].id < recs[j].id

C11_AscendingOrder ==
    /\ Ascending(LoadAll(Cur).ret)
    /\ Ascending(FreshLoadAll)
    /\ last.op = "LoadAll" => Ascending(last.ret)

\* C11 witness: loadAll() returned two records whose Insert entries are in
\* the journal in descending id order.
C11_Witness ==
    /\ last.op = "LoadAll"
    /\ Len(last.ret) = 2
    /\ Len(walFile.lines) = 2
    /\ walFile.lines[1].type = INSERT
    /\ walFile.lines[2].type = INSERT
    /\ walFile.lines[1].id > walFile.lines[2].id

\* C14: after save(records) has returned, loadAll() holds exactly the
\* supplied records, the last one winning for a duplicated id, and nothing
\* else; the journal is empty, operationsSinceCompact() is 0, the engine is
\* marked loaded, and a fresh instance loads the same content.
AsSet(seq) == {seq[i] : i \in 1..Len(seq)}

LastWins(items) ==
    {items[i] : i \in {i \in 1..Len(items) :
                          \A j \in (i + 1)..Len(items) : items[j].id # items[i].id}}

C14_SaveBulkReplace ==
    (last.op = "Save" /\ last.err = "none") =>
        LET all == LoadAll(Cur).ret
        IN  /\ AsSet(all) = LastWins(last.arg)
            /\ Len(all) = Cardinality(LastWins(last.arg))
            /\ Len(walFile.lines) = 0
            /\ operationsSinceCompact = 0
            /\ indexLoaded
            /\ FreshLoadAll = all

\* C14 witness: save() was given two records of the same id and the index
\* holds the second one only.
C14_Witness ==
    /\ last.op = "Save"
    /\ last.err = "none"
    /\ Len(last.arg) = 2
    /\ last.arg[1].id = last.arg[2].id
    /\ last.arg[1] # last.arg[2]
    /\ MapValues(memoryIndex) = <<last.arg[2]>>

\* C15: after clear(), on an instance that had loaded its index or not, the
\* index, the deleted-id set, the snapshot and the journal are empty, and
\* every read sees an empty collection: the first read on the same instance,
\* the reads after it, and the reads of a fresh instance.
ReadsEmpty(st) ==
    /\ Len(LoadAll(st).ret) = 0
    /\ \A id \in Ids : /\ ~Exists(st, id).flag
                       /\ LoadById(st, id).err = "NotFound"

C15_ClearEmptiesAll ==
    (last.op = "Clear" /\ last.err = "none") =>
        /\ memoryIndex = EmptyIndex
        /\ deletedIds = {}
        /\ dataFile.kind = "array"
        /\ Len(dataFile.elems) = 0
        /\ walFile.exists
        /\ Len(walFile.lines) = 0
        /\ ReadsEmpty(Cur)
        /\ ReadsEmpty(LoadAll(Cur))
        /\ ReadsEmpty(WALJsonStorage(Cur, compactThreshold))

\* C15 witness: clear() has run on an instance that had not loaded its index.
C15_Witness ==
    /\ last.op = "Clear"
    /\ last.err = "none"
    /\ ~indexLoaded

\* C16: whenever compaction has completed (inside insert, update or delete
\* when the counter reached the threshold, or by forceCompact, save or
\* clear), the snapshot holds exactly the records of the index, one per id,
\* the journal is empty, the write counter is 0 and the deleted-id set is
\* empty; and compaction leaves the index as it is.
CompactionCompleted ==
    /\ last.err = "none"
    /\ \/ last.op \in {"ForceCompact", "Save", "Clear"}
       \/ last.op \in {"Insert", "Update", "Delete"} /\ operationsSinceCompact = 0

C16_CompactPostState ==
    /\ CompactionCompleted =>
           /\ dataFile.kind = "array"
           /\ {AsRecord(dataFile.elems[i]) : i \in 1..Len(dataFile.elems)}
                  = {memoryIndex[k] : k \in DOMAIN memoryIndex}
           /\ Len(dataFile.elems) = Cardinality(DOMAIN memoryIndex)
           /\ \A i, j \in 1..Len(dataFile.elems) :
                  i # j => dataFile.elems[i].id # dataFile.elems[j].id
           /\ Len(walFile.lines) = 0
           /\ operationsSinceCompact = 0
           /\ deletedIds = {}
    /\ Compact(Cur, NoFault).memoryIndex = memoryIndex

\* C16 witness: a delete triggered the automatic compaction and a record is
\* left in the index and in the snapshot.
C16_Witness ==
    /\ last.op = "Delete"
    /\ last.err = "none"
    /\ operationsSinceCompact = 0
    /\ Len(dataFile.elems) = 1
    /\ memoryIndex # EmptyIndex

\* C20: each successful insert, update or delete appends exactly one entry of
\* its kind and id after the entries the journal had (an entry that the
\* compaction it triggers then truncates with the rest); every step leaves
\* the old journal as a prefix of the new one unless a compaction truncated
\* it to empty; and nothing else removes or rewrites an entry.
KindOf(name) == IF name = "Insert" THEN INSERT ELSE IF name = "Update" THEN UPDATE ELSE DELETE

IsPrefix(s, t) == Len(s) <= Len(t) /\ \A i \in 1..Len(s) : s[i] = t[i]

C20_JournalAppendOnly ==
    [][ /\ (last'.op \in {"Insert", "Update", "Delete"} /\ last'.err = "none") =>
               \/ /\ Len(walFile'.lines) = Len(walFile.lines) + 1
                  /\ IsPrefix(walFile.lines, walFile'.lines)
                  /\ walFile'.lines[Len(walFile'.lines)].type = KindOf(last'.op)
                  /\ walFile'.lines[Len(walFile'.lines)].id = last'.id
               \/ /\ Len(walFile'.lines) = 0
                  /\ operationsSinceCompact' = 0
        /\ \/ IsPrefix(walFile.lines, walFile'.lines)
           \/ /\ Len(walFile'.lines) = 0
              /\ operationsSinceCompact' = 0
              /\ last'.err = "none"
              /\ last'.op \in {"Insert", "Update", "Delete",
                               "Save", "Clear", "ForceCompact"}
      ]_vars

\* C20 witness: an update appended its entry after the Insert entry that an
\* earlier run had left in the journal.
C20_Witness ==
    /\ last.op = "Update"
    /\ last.err = "none"
    /\ Len(walFile.lines) = 2
    /\ walFile.lines[1].type = INSERT
    /\ walFile.lines[2].type = UPDATE
    /\ walFile.lines[2].id = last.id

\* C12: on a fixed dataset of N records, loadRange(offset, limit) with
\* offset >= 0 returns the elements of loadAll() at positions
\* [offset, min(offset + limit, N)) without failing, which is the empty
\* sequence when offset >= N or limit <= 0; and for every k >= 1 the pages
\* loadRange(0, k), loadRange(k, k), loadRange(2k, k), ... up to N,
\* concatenated, are loadAll().
Slice(s, from, to) == [i \in 1..(to - from) |-> s[from + i]]

RECURSIVE Pages(_, _, _)
Pages(st, k, i) ==
    IF i * k >= Len(LoadAll(st).ret) THEN <<>>
    ELSE LoadRange(st, i * k, k).ret \o Pages(st, k, i + 1)

C12_RangeConsistency ==
    LET all == LoadAll(Cur).ret
        N == Len(all)
    IN  /\ \A offset \in Offsets, limit \in Limits :
               LET r == LoadRange(Cur, offset, limit)
                   to == IF offset + limit <= N THEN offset + limit ELSE N
               IN  /\ r.err = "none"
                   /\ r.ret = Slice(all, offset, to)
                   /\ (offset >= N \/ limit <= 0) => Len(r.ret) = 0
        /\ \A k \in 1..MaxLimit : Pages(Cur, k, 0) = all
        /\ last.op = "LoadRange" =>
               /\ last.err = "none"
               /\ \E to \in 0..N : last.ret = Slice(all, last.id, to)

\* C12 witness: loadRange(1, 1) on three records returned the second one.
C12_Witness ==
    /\ last.op = "LoadRange"
    /\ last.id = 1
    /\ Cardinality(DOMAIN memoryIndex) = 3
    /\ Len(last.ret) = 1
    /\ last.ret[1] = memoryIndex[2]

\* C13: loadByIds(ids) does not fail; its result is ids with the absent ids
\* removed and every other id replaced by the record loadById returns for
\* it, in the order of ids, an id asked twice answered twice.
C13_LoadByIdsFiltered ==
    /\ \A ids \in IdLists :
           LET r == LoadByIds(Cur, ids)
               present == SelectSeq(ids, LAMBDA id : Exists(Cur, id).flag)
           IN  /\ r.err = "none"
               /\ Len(r.ret) = Len(present)
               /\ \A i \in 1..Len(present) :
                      <<r.ret[i]>> = LoadById(Cur, present[i]).ret
    /\ last.op = "LoadByIds" => last.err = "none"

\* C13 witness: three ids were asked, one of them absent, and the two
\* records came back in descending id order.
C13_Witness ==
    /\ last.op = "LoadByIds"
    /\ last.id = 3
    /\ Len(last.ret) = 2
    /\ last.ret[1].id = 3
    /\ last.ret[2].id = 1

\* C17: a write call (insert, update, delete, save, clear, forceCompact)
\* during which the journal or the snapshot could not be opened fails with
\* an I/O error: none returns normally when its journal append, its snapshot
\* write or its journal truncation did not happen.
C17_IOFailureSurfaced ==
    /\ ( /\ last.op \in {"Insert", "Update", "Delete"}
         /\ last.err # "NotFound"
         /\ last.env.wal = "fail" ) => last.err = "IOFailure"
    /\ ( /\ last.op \in {"Save", "Clear", "ForceCompact"}
         /\ (last.env.data = "fail" \/ last.env.wal = "fail") ) => last.err = "IOFailure"

\* A journal line is malformed when it is not JSON, lacks a key of the entry
\* format, or carries a payload that is not a valid record; a snapshot is
\* readable when it is an array of valid records.
ValidRecordJson(j) ==
    /\ j.firstName # ""
    /\ j.lastName # ""
    /\ \A i \in 1..Len(j.grades) : j.grades[i].score >= 0 /\ j.grades[i].score <= 100

Malformed(line) ==
    \/ ~line.parses
    \/ ~line.hasKeys
    \/ line.type # DELETE /\ line.data # <<>> /\ ~ValidRecordJson(line.data[1])

WithoutMalformed(lines) == SelectSeq(lines, LAMBDA line : ~Malformed(line))

Keyless(line) == line.parses /\ ~line.hasKeys

SnapshotRecords ==
    IF dataFile.kind = "array" THEN dataFile.elems ELSE <<>>

SnapshotDecodes ==
    \A i \in 1..Len(SnapshotRecords) : ValidRecordJson(SnapshotRecords[i])

\* C18: when at first access the snapshot is absent, not parseable or not an
\* array, the load does not fail and the index is the replay of the journal
\* alone over the empty collection; when the journal is absent the load does
\* not fail and takes no entry from it.  (Journals with a line that lacks a
\* key are the matter of C19.)
C18_BootstrapLoad ==
    [][ ( /\ ~indexLoaded
          /\ last'.op \in {"LoadAll", "LoadAllAborts"}
          /\ \A i \in 1..Len(walFile.lines) : ~Keyless(walFile.lines[i])
          /\ SnapshotDecodes
          /\ dataFile.kind # "array" \/ ~walFile.exists ) =>
            /\ last'.op = "LoadAll"
            /\ last'.err = "none"
            /\ indexLoaded'
            /\ memoryIndex' = Replay(SnapshotRecords, WithoutMalformed(walFile.lines))
            /\ dataFile.kind # "array" =>
                   memoryIndex' = Replay(<<>>, WithoutMalformed(walFile.lines))
            /\ ~walFile.exists => memoryIndex' = Replay(SnapshotRecords, <<>>)
      ]_vars

\* C18 witness: the first loadAll() found a snapshot that is not JSON and
\* built a non-empty index from the journal.
C18_Witness ==
    /\ last.op = "LoadAll"
    /\ last.err = "none"
    /\ dataFile.kind = "unparseable"
    /\ indexLoaded
    /\ operationsSinceCompact = 0
    /\ Len(last.ret) = 2

\* C19: a load never fails because of a malformed journal line, and the
\* index it builds is the replay over the snapshot of the journal without
\* its malformed lines.
C19_LenientReplay ==
    [][ ( /\ ~indexLoaded
          /\ last'.op \in {"LoadAll", "LoadAllAborts"}
          /\ SnapshotDecodes ) =>
            /\ last'.op = "LoadAll"
            /\ last'.err = "none"
            /\ indexLoaded'
            /\ memoryIndex' = Replay(SnapshotRecords, WithoutMalformed(walFile.lines))
      ]_vars

\* C21: AddStudent with valid names (and no stored student of the same
\* names and group) returns a student whose id is greater than 0 and is the
\* id of no student stored when it was called, and appends that student;
\* after every call of the service the stored students have pairwise
\* different ids.
DistinctIds(items) ==
    \A i, j \in 1..Len(items) : i # j => items[i].id # items[j].id

C21_FreshIds ==
    [][service.kind = "student" =>
       /\ DistinctIds(service.items)
       /\ DistinctIds(service'.items)
       /\ last'.op = "AddStudent" =>
              LET in == last'.arg[1]
              IN  /\ (/\ ValidateStudent(in[1], in[2]) = "none"
                      /\ ~IsDuplicate(service.items, in[1], in[2], in[3]))
                         => last'.err = "none"
                  /\ last'.err = "none" =>
                         /\ last'.ret[1].id > 0
                         /\ \A i \in 1..Len(service.items) :
                                service.items[i].id # last'.ret[1].id
                         /\ service'.items = Append(service.items, last'.ret[1])]_vars

\* Two students were added, the first was removed, and the next AddStudent
\* returned id 3 while the student of id 2 is stored.
C21_Witness ==
    /\ last.op = "AddStudent"
    /\ last.err = "none"
    /\ Len(service.items) = 2
    /\ service.items[1].id = 2
    /\ last.ret[1].id = 3

\* C22: AddStudent fails with DuplicateEntityException exactly when a stored
\* student has the same first name, last name and group name (the names
\* being valid), and AddGroup exactly when a stored group has the same
\* name; the items of the service and the storage are then unchanged.  An
\* AddStudent never makes two stored students share (first, last, group),
\* and no two stored groups share a name.
NoSharedNames(items) ==
    \A i, j \in 1..Len(items) :
        i # j => ~(/\ items[i].firstName = items[j].firstName
                   /\ items[i].lastName = items[j].lastName
                   /\ items[i].groupName = items[j].groupName)

NoSharedGroupName(items) ==
    \A i, j \in 1..Len(items) : i # j => items[i].name # items[j].name

C22_DuplicateRejected ==
    [][/\ last'.op = "AddStudent" =>
              LET in == last'.arg[1]
                  stored == IsDuplicate(service.items, in[1], in[2], in[3])
              IN  /\ stored => last'.err = "DuplicateEntityException"
                  /\ last'.err = "DuplicateEntityException" =>
                         /\ stored
                         /\ UNCHANGED <<service, memoryIndex, dataFile, walFile>>
                  /\ NoSharedNames(service.items) => NoSharedNames(service'.items)
       /\ last'.op = "AddGroup" =>
              LET in == last'.arg[1]
                  stored == IsDuplicateGroup(service.items, in[1])
              IN  /\ stored => last'.err = "DuplicateEntityException"
                  /\ last'.err = "DuplicateEntityException" =>
                         /\ stored
                         /\ UNCHANGED <<service, memoryIndex, dataFile, walFile>>
       /\ service.kind = "group" =>
              /\ NoSharedGroupName(service.items)
              /\ NoSharedGroupName(service'.items)]_vars

\* Two students are stored and an AddStudent with the names and group of
\* one of them was rejected.
C22_Witness ==
    /\ last.op = "AddStudent"
    /\ last.err = "DuplicateEntityException"
    /\ Len(service.items) = 2
    /\ IsDuplicate(service.items, last.arg[1][1], last.arg[1][2], last.arg[1][3])

\* C23: RemoveStudent and UpdateStudent on an id no stored student has throw
\* StudentNotFoundException, RemoveGroup and UpdateGroup on a name no stored
\* group has throw GroupNotFoundException, and the items of the service and
\* the storage are then unchanged; removing a stored entity returns normally
\* and GetAll() no longer returns it.
HasId(items, id) == \E i \in 1..Len(items) : items[i].id = id

HasName(items, name) == \E i \in 1..Len(items) : items[i].name = name

ServiceAfter ==
    [kind |-> service'.kind, items |-> service'.items, nextId |-> service'.nextId,
     file |-> service'.file]

C23_MissingEntity ==
    [][/\ (last'.op \in {"RemoveStudent", "UpdateStudent"}
             /\ ~HasId(service.items, last'.id)) =>
              /\ last'.err = "StudentNotFoundException"
              /\ UNCHANGED <<service, memoryIndex, dataFile, walFile>>
       /\ (last'.op \in {"RemoveGroup", "UpdateGroup"}
             /\ ~HasName(service.items, last'.arg[1])) =>
              /\ last'.err = "GroupNotFoundException"
              /\ UNCHANGED <<service, memoryIndex, dataFile, walFile>>
       /\ (last'.op = "RemoveStudent" /\ HasId(service.items, last'.id)) =>
              /\ last'.err = "none"
              /\ ~HasId(GetAll(ServiceAfter), last'.id)
              /\ Len(GetAll(ServiceAfter)) = Len(service.items) - 1
       /\ (last'.op = "RemoveGroup" /\ HasName(service.items, last'.arg[1])) =>
              /\ last'.err = "none"
              /\ ~HasName(GetAll(ServiceAfter), last'.arg[1])
              /\ Len(GetAll(ServiceAfter)) = Len(service.items) - 1]_vars

\* One student is stored and a RemoveStudent of another id was rejected.
C23_Witness ==
    /\ last.op = "RemoveStudent"
    /\ last.err = "StudentNotFoundException"
    /\ Len(service.items) = 1
    /\ ~HasId(service.items, last.id)

\* C24: AddGradeToStudent with a score outside 0..100 throws
\* InvalidGradeException and changes neither the service nor the storage;
\* with a valid score and a stored student, the student ends with exactly
\* one grade of that subject, holding the new score, and the grades of the
\* other subjects as they were.  Every grade of a stored student, in the
\* service and in the snapshot, has 0 <= score <= 100, and no student has
\* two grades of one subject.
GradesOf(gr, subject) == SelectSeq(gr, LAMBDA g : g.subject = subject)

GradesValid(gr) ==
    /\ \A i \in 1..Len(gr) : 0 <= gr[i].score /\ gr[i].score <= 100
    /\ \A i, j \in 1..Len(gr) : i # j => gr[i].subject # gr[j].subject

AllGradesValid(items, snapshot) ==
    /\ \A i \in 1..Len(items) : GradesValid(items[i].grades)
    /\ \A i \in 1..Len(snapshot.elems) : GradesValid(snapshot.elems[i].grades)

C24_GradeValidity ==
    [][/\ AllGradesValid(service.items, dataFile)
       /\ AllGradesValid(service'.items, dataFile')
       /\ last'.op = "AddGradeToStudent" =>
              LET subject == last'.arg[1]
                  score == last'.arg[2]
                  at == GetStudentById(CurService, last'.id)
              IN  /\ (score < 0 \/ score > 100) =>
                         /\ last'.err = "InvalidGradeException"
                         /\ UNCHANGED <<service, memoryIndex, dataFile, walFile>>
                  /\ (0 <= score /\ score <= 100 /\ at # 0) =>
                         /\ last'.err = "none"
                         /\ GradesOf(service'.items[at].grades, subject)
                                = <<MkGrade(subject, score)>>
                         /\ \A other \in Subjects \ {subject} :
                                GradesOf(service'.items[at].grades, other)
                                   = GradesOf(service.items[at].grades, other)]_vars

\* The student held a grade of each subject and AddGradeToStudent replaced
\* the score of the first one.
C24_Witness ==
    /\ last.op = "AddGradeToStudent"
    /\ last.err = "none"
    /\ last.arg = <<"math", 100>>
    /\ service.items[1].grades = <<MkGrade("math", 100), MkGrade("art", 60)>>

\* C25: in every reachable state Insert(r) returns normally whether or not
\* r.id is in the index, and leaves r stored under r.id; when r.id is in the
\* index, Insert(r) and Update(r) leave the same index, deleted-id set,
\* counter, snapshot and loaded flag, and journals of the same length that
\* differ only in the type of the entry appended (INSERT or UPDATE).
SameButLastType(insertLines, updateLines) ==
    /\ Len(insertLines) = Len(updateLines)
    /\ \A k \in 1..Len(insertLines) :
           IF k < Len(insertLines) THEN updateLines[k] = insertLines[k]
           ELSE /\ insertLines[k].type = INSERT
                /\ updateLines[k] = [insertLines[k] EXCEPT !.type = UPDATE]

C25_UpsertEquivalence ==
    \A item \in Students :
        LET before == LoadIndex(Cur)
            i == Insert(Cur, item, NoFault)
            u == Update(Cur, item, NoFault)
        IN  /\ i.err = "none"
            /\ item.id \in DOMAIN i.memoryIndex
            /\ i.memoryIndex[item.id] = item
            /\ item.id \in DOMAIN before.memoryIndex =>
                   /\ u.err = "none"
                   /\ u.memoryIndex = i.memoryIndex
                   /\ u.deletedIds = i.deletedIds
                   /\ u.operationsSinceCompact = i.operationsSinceCompact
                   /\ u.indexLoaded = i.indexLoaded
                   /\ u.dataFile = i.dataFile
                   /\ u.walFile.exists = i.walFile.exists
                   /\ SameButLastType(i.walFile.lines, u.walFile.lines)

\* An Update of a record whose Insert entry is still in the journal: the
\* journal holds the INSERT and the UPDATE entry of the same id.
C25_Witness ==
    /\ last.op = "Update"
    /\ last.err = "none"
    /\ Len(walFile.lines) = 2
    /\ walFile.lines[1].type = INSERT
    /\ walFile.lines[2].type = UPDATE
    /\ walFile.lines[1].id = last.id
    /\ memoryIndex[last.id] = last.arg[1]

\* C26: in every state of a loaded instance, no call resets indexLoaded and
\* LoadIndex changes nothing, whatever the snapshot and the journal hold by
\* then: LoadAll returns the records of the index, so neither file is read
\* again and no journal entry is applied a second time.  In every state a
\* call that needs the index leaves indexLoaded set.
ChangedFiles ==
    {[dataFile |-> d, walFile |-> w] :
        d \in FoundSnapshots, w \in {j \in FoundJournals : Len(j.lines) <= 1}}

\* The states in which the calls of one instance leave the state st.
AfterNeedingIndex(st) ==
    {Insert(st, item, NoFault) : item \in Students}
    \cup {Update(st, item, NoFault) : item \in Students}
    \cup {Delete(st, id, NoFault) : id \in Ids}
    \cup {LoadById(st, id) : id \in Ids}
    \cup {Exists(st, id) : id \in Ids}
    \cup {LoadAll(st)}

AfterOtherCalls(st) ==
    {Save(st, items, NoFault) : items \in SaveInputs}
    \cup {Clear(st, NoFault), ForceCompact(st, NoFault),
           GetCount(st), GetOperationsSinceCompact(st)}

C26_LoadOnce ==
    /\ \A r \in AfterNeedingIndex(Cur) : r.indexLoaded
    /\ indexLoaded =>
           /\ \A r \in AfterOtherCalls(Cur) : r.indexLoaded
           /\ \A f \in ChangedFiles :
                  LET changed == [Cur EXCEPT !.dataFile = f.dataFile,
                                             !.walFile = f.walFile]
                  IN  /\ LoadIndex(changed) = changed
                      /\ LoadAll(changed).ret = MapValues(memoryIndex)
                      /\ LoadAll(changed).memoryIndex = memoryIndex
                      /\ LoadAll(changed).deletedIds = deletedIds

\* An instance started on a journal of one entry, loaded by its first write,
\* and then asked LoadAll: the journal holds two entries and each is in the
\* index once.
C26_Witness ==
    /\ last.op = "LoadAll"
    /\ indexLoaded
    /\ operationsSinceCompact = 1
    /\ Len(walFile.lines) = 2
    /\ last.ret = MapValues(memoryIndex)

\* C27: on a loaded instance LoadById, LoadAll, LoadRange, LoadByIds, Exists,
\* GetCount and GetOperationsSinceCompact leave the index, the deleted-id
\* set, the counter, the threshold, the loaded flag, the snapshot and the
\* journal as they are (so none compacts), also when LoadById fails with
\* NotFound.
SameStorage(r) ==
    /\ r.memoryIndex = memoryIndex
    /\ r.deletedIds = deletedIds
    /\ r.operationsSinceCompact = operationsSinceCompact
    /\ r.compactThreshold = compactThreshold
    /\ r.indexLoaded = indexLoaded
    /\ r.dataFile = dataFile
    /\ r.walFile = walFile

C27_ReadsHaveNoEffect ==
    indexLoaded =>
        /\ \A id \in Ids \cup AskedIds :
               /\ SameStorage(LoadById(Cur, id))
               /\ SameStorage(Exists(Cur, id))
               /\ id \notin DOMAIN memoryIndex => LoadById(Cur, id).err = "NotFound"
        /\ SameStorage(LoadAll(Cur))
        /\ \A offset \in Offsets, limit \in Limits :
               SameStorage(LoadRange(Cur, offset, limit))
        /\ \A ids \in {l \in IdLists : Len(l) <= 2} : SameStorage(LoadByIds(Cur, ids))
        /\ SameStorage(GetCount(Cur))
        /\ SameStorage(GetOperationsSinceCompact(Cur))

\* A LoadById that failed with NotFound on an instance that had written one
\* entry to its journal: the counter and the journal are as the write left
\* them.
C27_Witness ==
    /\ last.op = "LoadById"
    /\ last.err = "NotFound"
    /\ indexLoaded
    /\ operationsSinceCompact = 1
    /\ Len(walFile.lines) = 1
    /\ last.id \notin DOMAIN memoryIndex

\* C28: in every state of a loaded instance the deleted-id set is the one a
\* fresh instance builds when it loads the snapshot and replays the journal
\* this instance left.
FreshDeletedIds == LoadIndex(WALJsonStorage(Cur, compactThreshold)).deletedIds

C28_DeletedIdsAgree ==
    indexLoaded => deletedIds = FreshDeletedIds

\* C29: when the journal does not open during an Insert, Update or Delete
\* that passes its NotFound test and completes no compaction, the index
\* holds the mutation and both files are as before the call; if the index
\* agreed with what a fresh instance loads and the mutation changed it, it
\* now differs from what a fresh instance loads, which is the index from
\* before the call: a restart loses the write.
FreshIndex == LoadIndex(WALJsonStorage(Cur, compactThreshold)).memoryIndex

C29_AppendFailureHazard ==
    [][(/\ last'.op \in {"Insert", "Update", "Delete"}
        /\ last'.env.wal = "fail"
        /\ last'.err # "NotFound"
        /\ operationsSinceCompact' # 0) =>
          LET before == LoadIndex(Cur).memoryIndex
              mutated == IF last'.op = "Delete" THEN MapErase(before, last'.id)
                         ELSE MapSet(before, last'.id, last'.arg[1])
          IN  /\ memoryIndex' = mutated
              /\ walFile' = walFile
              /\ dataFile' = dataFile
              /\ operationsSinceCompact' = LoadIndex(Cur).operationsSinceCompact + 1
              /\ (before = FreshIndex /\ mutated # before) =>
                     /\ memoryIndex' # FreshIndex
                     /\ FreshIndex = before]_vars

\* An Insert during which the journal did not open returned: the record is
\* in the index, the counter is 1, and neither file exists.
C29_Witness ==
    /\ last.op = "Insert"
    /\ last.env.wal = "fail"
    /\ last.err = "none"
    /\ operationsSinceCompact = 1
    /\ last.id \in DOMAIN memoryIndex
    /\ dataFile.kind = "absent"
    /\ ~walFile.exists

\* C30: when the process stops inside Compact, the snapshot is the complete
\* previous snapshot or the complete new one (the records Compact was
\* writing); it is never a file that does not parse, and the instance
\* started next loads every record of the previous snapshot that the journal
\* does not delete.
SnapshotBeingWritten ==
    [kind |-> "array",
     elems |-> [i \in 1..Len(last'.ret) |-> StudentToJson(last'.ret[i])]]

C30_AtomicSnapshot ==
    [][last'.op \in {"CrashInCompact", "CrashInSnapshotWrite"} =>
          /\ dataFile' \in {dataFile, SnapshotBeingWritten}
          /\ dataFile'.kind # "unparseable"]_vars

\* C31: when a write operation (Insert, Update, Delete, Save, Clear,
\* ForceCompact) has returned, the journal holds fewer than compactThreshold
\* entries and the write counter equals the number of entries in the
\* journal, also on an instance constructed on a journal that a previous
\* instance left with entries.
WriteOps == {"Insert", "Update", "Delete", "Save", "Clear", "ForceCompact"}

C31_ReplayCostBounded ==
    (last.op \in WriteOps /\ last.err = "none") =>
        /\ Len(walFile.lines) < compactThreshold
        /\ GetOperationsSinceCompact(Cur).ret = <<Len(walFile.lines)>>

\* C32: ForceCompact called in any state of an instance, loaded or not yet
\* loaded, leaves the records that a fresh instance recovers from the
\* snapshot and the journal as they were before the call.
C32_ForceCompactKeepsData ==
    [][last'.op = "ForceCompact" => FreshLoadAll' = FreshLoadAll]_vars

\* C33: in every state of an instance, loaded or not yet loaded, count()
\* is the number of records loadAll() returns and the number of ids for
\* which exists(id) is true.
C33_CountAgreesWithReads ==
    /\ GetCount(Cur).ret = <<Len(LoadAll(Cur).ret)>>
    /\ GetCount(Cur).ret = <<Cardinality({id \in Ids : Exists(Cur, id).flag})>>

\* C34: an Update or a Delete that fails with NotFound on a loaded instance
\* leaves the index, the deleted-id set, the write counter, the journal and
\* the snapshot as they were: no entry is appended, the counter is not
\* incremented, no compaction runs.
C34_FailedWriteNoEffect ==
    [][(/\ indexLoaded
        /\ last'.op \in {"Update", "Delete"}
        /\ last'.err = "NotFound") =>
          /\ memoryIndex' = memoryIndex
          /\ deletedIds' = deletedIds
          /\ operationsSinceCompact' = operationsSinceCompact
          /\ walFile' = walFile
          /\ dataFile' = dataFile
          /\ indexLoaded']_vars

\* C34 witness: a Delete of an id that is not in the index failed on an
\* instance that had written one journal entry and holds a record, one write
\* short of its threshold.
C34_Witness ==
    /\ last.op = "Delete"
    /\ last.err = "NotFound"
    /\ indexLoaded
    /\ operationsSinceCompact = 1
    /\ compactThreshold = 2
    /\ Len(walFile.lines) = 1
    /\ memoryIndex # EmptyIndex
    /\ last.id \notin DOMAIN memoryIndex

\* C35: in every state reached through the public operations on files that
\* only the engine wrote, every key of the memory index maps to a record
\* whose id is the key, every Insert or Update entry of the journal carries
\* a payload whose id is the id of the entry, and every Delete entry carries
\* no payload.
C35_KeyRecordAgreement ==
    /\ \A k \in DOMAIN memoryIndex : memoryIndex[k].id = k
    /\ \A i \in 1..Len(walFile.lines) :
           LET e == walFile.lines[i]
           IN  IF e.type = DELETE THEN e.data = <<>>
               ELSE /\ e.type \in {INSERT, UPDATE}
                    /\ Len(e.data) = 1
                    /\ e.data[1].id = e.id

\* C35 witness: a loaded instance holds a record that came from the
\* snapshot, and its journal holds an Insert or Update entry followed by a
\* Delete entry.
C35_Witness ==
    /\ indexLoaded
    /\ memoryIndex # EmptyIndex
    /\ dataFile.kind = "array"
    /\ Len(walFile.lines) = 2
    /\ walFile.lines[1].type \in {INSERT, UPDATE}
    /\ walFile.lines[2].type = DELETE

\* C36: when an element of the snapshot array fails to decode during the
\* load, no record of the snapshot is kept: the index is the replay of the
\* journal over the empty collection, never over the records that stood
\* before the failing element.
C36_SnapshotAllOrNothing ==
    [][(/\ ~indexLoaded
        /\ last'.op = "LoadAll"
        /\ ~SnapshotDecodes) =>
          memoryIndex' = Replay(<<>>, WithoutMalformed(walFile.lines))]_vars

\* C37: when the compaction that an Insert, Update or Delete triggers cannot
\* open the snapshot for writing, the snapshot is as before, the journal is
\* not truncated and ends with the entry of the write, the write counter is
\* not reset, and the snapshot and the journal replay to the current index,
\* the write included; the next write that passes its NotFound test runs the
\* compaction again.
SingleWrites == {"Insert", "Update", "Delete"}

EntryOfLastCall ==
    IF last.op = "Delete" THEN OperationToJson(MkOp(DELETE, last.id, DefaultStudent))
    ELSE OperationToJson(MkOp(IF last.op = "Insert" THEN INSERT ELSE UPDATE,
                              last.id, last.arg[1]))

CompactionOverdue == operationsSinceCompact >= compactThreshold

\* The index a fresh instance loads from snapshot d and journal w.
FreshIndexOf(d, w) ==
    LoadIndex(WALJsonStorage([Cur EXCEPT !.dataFile = d, !.walFile = w],
                             compactThreshold)).memoryIndex

C37_FailedCompactionKeepsData ==
    [][/\ (/\ last'.op \in SingleWrites
           /\ last'.env.data = "fail"
           /\ last'.err = "IOFailure") =>
             /\ dataFile' = dataFile
             /\ walFile'.lines = Append(walFile.lines, EntryOfLastCall')
             /\ operationsSinceCompact' = LoadIndex(Cur).operationsSinceCompact + 1
             /\ CompactionOverdue'
             /\ memoryIndex' = Replay(dataFile'.elems, walFile'.lines)
             /\ memoryIndex' = FreshIndexOf(dataFile', walFile')
             /\ IF last'.op = "Delete" THEN last'.id \notin DOMAIN memoryIndex'
                ELSE memoryIndex'[last'.id] = last'.arg[1]
       /\ (/\ CompactionOverdue
           /\ last'.op \in SingleWrites
           /\ last'.err # "NotFound") =>
             IF last'.env.data = "fail" THEN last'.err = "IOFailure"
             ELSE /\ last'.err = "none"
                  /\ operationsSinceCompact' = 0
                  /\ walFile'.lines = <<>>
                  /\ dataFile' = [kind |-> "array",
                                  elems |-> [i \in 1..Len(MapValues(memoryIndex')) |->
                                                StudentToJson(MapValues(memoryIndex')[i])]]
      ]_vars

\* C37 witness: a Delete brought the counter to the threshold 2, the
\* compaction could not open the snapshot, and the journal holds both
\* entries written since the last compaction.
C37_Witness ==
    /\ last.op = "Delete"
    /\ last.env.data = "fail"
    /\ last.err = "IOFailure"
    /\ compactThreshold = 2
    /\ operationsSinceCompact = 2
    /\ Len(walFile.lines) = 2
    /\ last.id \notin DOMAIN memoryIndex

\* C38: a Save or a Clear whose compaction fails is without effect on the
\* instance: loadAll() returns after the call what it would have returned
\* before it, also when the instance had not loaded its index (the records
\* passed to Save are not mixed with the records loaded later).
StorageAfter ==
    [Cur EXCEPT !.memoryIndex = memoryIndex', !.deletedIds = deletedIds',
                !.operationsSinceCompact = operationsSinceCompact',
                !.indexLoaded = indexLoaded',
                !.dataFile = dataFile', !.walFile = walFile']

C38_FailedSaveNoEffect ==
    [][(last'.op \in {"Save", "Clear"} /\ last'.err = "IOFailure") =>
           LoadAll(StorageAfter).ret = LoadAll(Cur).ret]_vars

\* C39: after every StudentService or GroupService mutation that returns,
\* the storage holds exactly the item list of the service; a mutation that
\* throws leaves the item list as it was before the call and equal to what
\* the storage holds.
ServiceMutations ==
    {"AddStudent", "RemoveStudent", "UpdateStudent", "AddGradeToStudent",
     "RemoveGradeFromStudent", "AddGroup", "RemoveGroup", "UpdateGroup"}

\* What a service constructed anew on the storage of sv loads from it.
StoredItems(sv) ==
    NewService([sv EXCEPT !.st = WALJsonStorage(sv.st, sv.st.compactThreshold)]).items

ServiceStateAfter ==
    [CurService EXCEPT !.items = service'.items, !.nextId = service'.nextId,
                       !.file = service'.file, !.st = StorageAfter]

C39_FailureAtomicity ==
    [][last'.op \in ServiceMutations =>
          /\ StoredItems(ServiceStateAfter) = GetAll(ServiceStateAfter)
          /\ last'.err # "none" => GetAll(ServiceStateAfter) = GetAll(CurService)]_vars

====
